---- MODULE Spec2Model ----
(***************************************************************************)
(* Delta Force Leaderboard: the OCR text reconciliation pipeline.          *)
(*                                                                         *)
(* The parsers of clean_up_ocr_output.py (6-stat generation) and of        *)
(* components/process_match_data.py (8-stat generation), the medal         *)
(* extractor of components/extract_medals.py and the record assembler      *)
(* MatchProcessor.write_csv.                                               *)
(*                                                                         *)
(* A Python str is modelled as a sequence of one-character strings, so     *)
(* that split, strip, join, replace, isdigit, isalpha, zfill, int() and    *)
(* str() are computed character by character as the interpreter does.     *)
(*                                                                         *)
(* Around the text pipeline: Database.import_csv_worker of                 *)
(* src/data/database.py with the import workers of                         *)
(* src/gui/dialogs/import_progress.py, ProcessingThread.run of run.py and  *)
(* UpdateChecker.check_for_updates of src/utils/update_checker.py.         *)
(***************************************************************************)
EXTENDS Integers, Sequences, FiniteSets, TLC

VARIABLES target, lines, now, called, ret, first, checks, files, stage, csv,
          db, connections, workers, processing_thread, update_checker, world

\* the state of the text pipeline
texts == <<target, lines, now, called, ret, first, checks, files, stage, csv>>

\* the state of the application around it: the matches database and its
\* import workers, the processing thread, the update checker and its world
apps == <<db, connections, workers, processing_thread, update_checker, world>>

vars == <<texts, apps>>

----------------------------------------------------------------------------
(* Python str primitives                                                   *)

Digits == {"0","1","2","3","4","5","6","7","8","9"}

UpperLetters == {"A","B","C","D","E","F","G","H","I","J","K","L","M",
                 "N","O","P","Q","R","S","T","U","V","W","X","Y","Z"}

LowerLetters == {"a","b","c","d","e","f","g","h","i","j","k","l","m",
                 "n","o","p","q","r","s","t","u","v","w","x","y","z"}

\* str.isspace of one character (the whitespace the OCR text files hold)
IsSpace(c) == c \in {" ", "\t", "\n"}

\* str.isalpha of one character
IsAlphaChar(c) == c \in UpperLetters \cup LowerLetters

\* str.isdigit of one character
IsDigitChar(c) == c \in Digits

\* any(char.isalpha() for char in line)
HasAlpha(s) == \E k \in 1..Len(s) : IsAlphaChar(s[k])

\* str.isdigit(): non-empty and every character a digit
IsDigit(s) == Len(s) > 0 /\ \A k \in 1..Len(s) : IsDigitChar(s[k])

\* s[a:] with a Python (0-based) index a >= 0
From(s, a) == IF a >= Len(s) THEN <<>> ELSE SubSeq(s, a + 1, Len(s))

\* s[:b] with a Python index b; a negative b counts from the end
UpTo(s, b) ==
    LET e == IF b < 0 THEN Len(s) + b ELSE b
    IN  IF e <= 0 THEN <<>> ELSE IF e >= Len(s) THEN s ELSE SubSeq(s, 1, e)

\* s[a:] where a may be negative (counts from the end, clipped at 0)
FromNeg(s, a) ==
    IF a >= 0 THEN From(s, a)
    ELSE IF Len(s) + a <= 0 THEN s ELSE From(s, Len(s) + a)

\* s.startswith(p)
StartsWith(s, p) == Len(s) >= Len(p) /\ SubSeq(s, 1, Len(p)) = p

RECURSIVE LStrip(_)
LStrip(s) == IF s # <<>> /\ IsSpace(Head(s)) THEN LStrip(Tail(s)) ELSE s

RECURSIVE RStrip(_)
RStrip(s) ==
    IF s # <<>> /\ IsSpace(s[Len(s)]) THEN RStrip(SubSeq(s, 1, Len(s) - 1)) ELSE s

\* str.strip()
Strip(s) == RStrip(LStrip(s))

\* str.rstrip(c) for a single character c
RECURSIVE RStripChar(_, _)
RStripChar(s, c) ==
    IF s # <<>> /\ s[Len(s)] = c THEN RStripChar(SubSeq(s, 1, Len(s) - 1), c) ELSE s

RECURSIVE SplitFrom(_, _, _, _)
SplitFrom(s, k, cur, acc) ==
    IF k > Len(s) THEN (IF cur = <<>> THEN acc ELSE Append(acc, cur))
    ELSE IF IsSpace(s[k])
         THEN SplitFrom(s, k + 1, <<>>, IF cur = <<>> THEN acc ELSE Append(acc, cur))
         ELSE SplitFrom(s, k + 1, Append(cur, s[k]), acc)

\* str.split() with no argument: the maximal runs of non-whitespace
Split(s) == SplitFrom(s, 1, <<>>, <<>>)

RECURSIVE JoinFrom(_, _, _)
JoinFrom(ws, sep, k) ==
    IF k > Len(ws) THEN <<>>
    ELSE IF k = Len(ws) THEN ws[k]
    ELSE ws[k] \o sep \o JoinFrom(ws, sep, k + 1)

\* sep.join(ws)
Join(ws, sep) == JoinFrom(ws, sep, 1)

\* ' '.join(ws)
JoinSp(ws) == Join(ws, <<" ">>)

\* str.replace(old, new) for a non-empty old: leftmost, non-overlapping
RECURSIVE Replace(_, _, _)
Replace(s, old, new) ==
    IF Len(s) < Len(old) THEN s
    ELSE IF SubSeq(s, 1, Len(old)) = old
         THEN new \o Replace(SubSeq(s, Len(old) + 1, Len(s)), old, new)
         ELSE <<Head(s)>> \o Replace(Tail(s), old, new)

\* part.replace(',', '')
NoCommas(s) == Replace(s, <<",">>, <<>>)

\* sub in s, for strings
IsSubstring(sub, s) ==
    \E a \in 0..(Len(s) - Len(sub)) : SubSeq(s, a + 1, a + Len(sub)) = sub

\* c in s, for one character
HasChar(s, c) == \E k \in 1..Len(s) : s[k] = c

LowerChar(c) ==
    CASE c = "A" -> "a" [] c = "B" -> "b" [] c = "C" -> "c" [] c = "D" -> "d"
      [] c = "E" -> "e" [] c = "F" -> "f" [] c = "G" -> "g" [] c = "H" -> "h"
      [] c = "I" -> "i" [] c = "J" -> "j" [] c = "K" -> "k" [] c = "L" -> "l"
      [] c = "M" -> "m" [] c = "N" -> "n" [] c = "O" -> "o" [] c = "P" -> "p"
      [] c = "Q" -> "q" [] c = "R" -> "r" [] c = "S" -> "s" [] c = "T" -> "t"
      [] c = "U" -> "u" [] c = "V" -> "v" [] c = "W" -> "w" [] c = "X" -> "x"
      [] c = "Y" -> "y" [] c = "Z" -> "z" [] OTHER -> c

\* str.lower()
Lower(s) == [k \in 1..Len(s) |-> LowerChar(s[k])]

\* str.zfill(2): pads on the left with "0", after a leading sign
ZFill2(s) ==
    IF Len(s) >= 2 THEN s
    ELSE IF Len(s) = 0 THEN <<"0", "0">>
    ELSE IF s[1] \in {"+", "-"} THEN <<s[1], "0">>
    ELSE <<"0", s[1]>>

DigitVal(c) ==
    CASE c = "0" -> 0 [] c = "1" -> 1 [] c = "2" -> 2 [] c = "3" -> 3
      [] c = "4" -> 4 [] c = "5" -> 5 [] c = "6" -> 6 [] c = "7" -> 7
      [] c = "8" -> 8 [] c = "9" -> 9

DigitChar(d) ==
    CASE d = 0 -> "0" [] d = 1 -> "1" [] d = 2 -> "2" [] d = 3 -> "3"
      [] d = 4 -> "4" [] d = 5 -> "5" [] d = 6 -> "6" [] d = 7 -> "7"
      [] d = 8 -> "8" [] d = 9 -> "9"

RECURSIVE DigitsValue(_, _)
DigitsValue(s, acc) ==
    IF s = <<>> THEN acc ELSE DigitsValue(Tail(s), 10 * acc + DigitVal(Head(s)))

\* int(s) succeeds: optional surrounding whitespace, optional sign, digits
\* with single underscores allowed between them
IntBody(s) == IF s # <<>> /\ s[1] \in {"+", "-"} THEN Tail(s) ELSE s

IsIntDigits(b) ==
    /\ b # <<>>
    /\ IsDigitChar(b[1])
    /\ IsDigitChar(b[Len(b)])
    /\ \A k \in 1..Len(b) : IsDigitChar(b[k]) \/ b[k] = "_"
    /\ \A k \in 1..(Len(b) - 1) : ~(b[k] = "_" /\ b[k + 1] = "_")

IsInt(s) == IsIntDigits(IntBody(Strip(s)))

\* int(s), for IsInt(s)
IntOf(s) ==
    LET t == Strip(s)
        v == DigitsValue(Replace(IntBody(t), <<"_">>, <<>>), 0)
    IN  IF t[1] = "-" THEN 0 - v ELSE v

\* str(n) for n >= 0
RECURSIVE StrOfNat(_)
StrOfNat(n) ==
    IF n < 10 THEN <<DigitChar(n)>> ELSE Append(StrOfNat(n \div 10), DigitChar(n % 10))

\* the words of ws that satisfy word.isdigit(), converted by int, in order
RECURSIVE DigitWordsFrom(_, _)
DigitWordsFrom(ws, k) ==
    IF k > Len(ws) THEN <<>>
    ELSE IF IsDigit(ws[k]) THEN <<IntOf(ws[k])>> \o DigitWordsFrom(ws, k + 1)
    ELSE DigitWordsFrom(ws, k + 1)

DigitWords(ws) == DigitWordsFrom(ws, 1)

\* dict.get(key, key) on a table given as a sequence of <<key, value>> pairs
Correct(table, key) ==
    IF \E k \in 1..Len(table) : table[k][1] = key
    THEN table[CHOOSE k \in 1..Len(table) : table[k][1] = key][2]
    ELSE key

\* key in dict
HasKey(table, key) == \E k \in 1..Len(table) : table[k][1] = key

\* dict[key], for HasKey(table, key)
Get(table, key) == table[CHOOSE k \in 1..Len(table) : table[k][1] = key][2]

\* all sequences over S of length at most n
SeqsUpTo(S, n) == UNION {[1..m -> S] : m \in 0..n}

----------------------------------------------------------------------------
(* Exceptions: a try block yields a value or the name of the exception it  *)
(* raised; an except clause catches the classes it lists, and              *)
(* "Exception" (or a bare except) catches every class modelled here.       *)

Handles(classes, exc) == "Exception" \in classes \/ exc \in classes

----------------------------------------------------------------------------
(* clean_up_ocr_output.py: process_lines (6 stats per row)                 *)

LegacyArity == 6

class_map ==
    << <<<<"+">>, <<"S","u","p","p","o","r","t">>>>,
       <<<<"o">>, <<"R","e","c","o","n">>>>,
       <<<<"A">>, <<"A","s","s","a","u","l","t">>>>,
       <<<<".">>, <<"E","n","g","i","n","e","e","r">>>> >>

\* a variant of RowComplete that accepts 6 numbers or more
RowCompleteAtLeast(current_name, current_numbers) ==
    current_name # <<>> /\ Len(current_numbers) >= LegacyArity

\* the guard of both rows.append calls: a name is set and exactly 6 numbers
RowComplete(current_name, current_numbers) ==
    current_name # <<>> /\ Len(current_numbers) = LegacyArity

\* [current_prefix, current_class, current_name] + current_numbers
Row(prefix, cls, name, numbers) == <<prefix, cls, name>> \o numbers

\* a variant of LegacyClassAndName that leaves the glyph in the name
LegacyClassAndNameKeepGlyph(words) ==
    IF Len(words) > 2 /\ HasKey(class_map, words[2])
    THEN [cls |-> Get(class_map, words[2]), name |-> JoinSp(From(words, 1))]
    ELSE [cls |-> <<"E","n","g","i","n","e","e","r">>, name |-> JoinSp(From(words, 1))]

\* class and name of a name line: the glyph is read only when a name follows it
LegacyClassAndName(words) ==
    IF Len(words) > 2 /\ HasKey(class_map, words[2])
    THEN [cls |-> Get(class_map, words[2]), name |-> JoinSp(From(words, 2))]
    ELSE [cls |-> <<"E","n","g","i","n","e","e","r">>, name |-> JoinSp(From(words, 1))]

\* current_name[2:] when it starts with "- "
StripDash(name) == IF StartsWith(name, <<"-"," ">>) THEN From(name, 2) ELSE name

\* The loop state before any line; None is modelled as the empty string
\* (both are falsy, and the prefix and class are read only with a name set).
LegacyStart ==
    [rows |-> <<>>, prefix |-> <<>>, cls |-> <<>>, name |-> <<>>, numbers |-> <<>>]

\* one iteration of "for line in input_lines"
LegacyLine(st, line) ==
    LET words == Split(line)
    IN  IF HasAlpha(line)
        THEN LET cn == LegacyClassAndName(words)
             IN  [rows    |-> IF RowComplete(st.name, st.numbers)
                              THEN Append(st.rows,
                                          Row(st.prefix, st.cls, st.name, st.numbers))
                              ELSE st.rows,
                  prefix  |-> words[1],
                  cls     |-> cn.cls,
                  name    |-> StripDash(cn.name),
                  numbers |-> <<>>]
        ELSE [st EXCEPT !.numbers = st.numbers \o DigitWords(words)]

RECURSIVE LegacyLoop(_, _, _)
LegacyLoop(input_lines, k, st) ==
    IF k > Len(input_lines) THEN st
    ELSE LegacyLoop(input_lines, k + 1, LegacyLine(st, input_lines[k]))

process_lines(input_lines) ==
    LET st == LegacyLoop(input_lines, 1, LegacyStart)
    IN  IF RowComplete(st.name, st.numbers)
        THEN Append(st.rows, Row(st.prefix, st.cls, st.name, st.numbers))
        ELSE st.rows

----------------------------------------------------------------------------
(* components/process_match_data.py: Config and DataProcessor              *)

ScoreboardArity == 8

CLASS_MAP ==
    << <<<<"+">>, <<"S","u","p","p","o","r","t">>>>,
       <<<<"o">>, <<"R","e","c","o","n">>>>,
       <<<<"A">>, <<"A","s","s","a","u","l","t">>>>,
       <<<<"-">>, <<"S","u","p","p","o","r","t">>>>,
       <<<<".">>, <<"E","n","g","i","n","e","e","r">>>>,
       <<<<" ">>, <<"E","n","g","i","n","e","e","r">>>>,
       <<<<"9">>, <<"R","e","c","o","n">>>> >>

PlayerData(prefix, player_class, name, stats) ==
    [prefix |-> prefix, player_class |-> player_class, name |-> name, stats |-> stats]

\* for part in parts[:8]: try: stats.append(int(part.replace(',', '')))
\*                        except ValueError: continue
\* (FirstStats below starts it at the first part)
RECURSIVE StatsFrom(_, _)
StatsFrom(parts, k) ==
    IF k > Len(parts) \/ k > ScoreboardArity THEN <<>>
    ELSE IF IsInt(NoCommas(parts[k]))
         THEN <<IntOf(NoCommas(parts[k]))>> \o StatsFrom(parts, k + 1)
         ELSE StatsFrom(parts, k + 1)

\* a variant of FirstStats: the first 8 integers among all the parts, not
\* only among parts[:8]
RECURSIVE StatsAnywhereFrom(_, _, _)
StatsAnywhereFrom(parts, k, n) ==
    IF k > Len(parts) \/ n = 0 THEN <<>>
    ELSE IF IsInt(NoCommas(parts[k]))
         THEN <<IntOf(NoCommas(parts[k]))>> \o StatsAnywhereFrom(parts, k + 1, n - 1)
         ELSE StatsAnywhereFrom(parts, k + 1, n)

FirstStatsAnywhere(parts) == StatsAnywhereFrom(parts, 1, 8)

FirstStats(parts) == StatsFrom(parts, 1)

\* if len(stats) == 8
StatsComplete(stats) == Len(stats) = ScoreboardArity

\* name_cleaned: the parts that are no CLASS_MAP key, commas removed
RECURSIVE CleanParts(_, _)
CleanParts(ws, k) ==
    IF k > Len(ws) THEN <<>>
    ELSE IF ~HasKey(CLASS_MAP, ws[k]) /\ ws[k] # <<".">>
         THEN <<NoCommas(ws[k])>> \o CleanParts(ws, k + 1)
         ELSE CleanParts(ws, k + 1)

CleanName(name) == JoinSp(CleanParts(Split(name), 1))

\* status and name of a player given the tokens after the rank
StatusAndName(name_parts) ==
    IF name_parts # <<>> /\ HasKey(CLASS_MAP, name_parts[1])
    THEN [status |-> name_parts[1], name |-> CleanName(JoinSp(From(name_parts, 1)))]
    ELSE [status |-> <<".">>, name |-> CleanName(JoinSp(name_parts))]

\* the player of the current line, its stats on the next line
MultiLinePlayer(parts, stats) ==
    LET sn == StatusAndName(From(parts, 1))
    IN  PlayerData(parts[1], Get(CLASS_MAP, sn.status), sn.name, stats)

\* the second player of a stat line of more than 8 tokens, if any is emitted
SecondPlayer(input, i, next_parts) ==
    LET second_player == From(next_parts, ScoreboardArity)
    IN  IF Len(next_parts) > ScoreboardArity /\ Len(second_player) >= 2
           /\ i + 2 < Len(input)
        THEN LET stats2 == FirstStats(Split(input[i + 3]))
             IN  IF StatsComplete(stats2)
                 THEN <<MultiLinePlayer(second_player, stats2)>>
                 ELSE <<>>
        ELSE <<>>

\* [int(parts[k].replace(',', '')) for k in range(j, j+8)] raises no ValueError
WindowIsInts(parts, j) ==
    \A k \in j..(j + ScoreboardArity - 1) : IsInt(NoCommas(parts[k + 1]))

WindowStats(parts, j) ==
    [k \in 1..ScoreboardArity |-> IntOf(NoCommas(parts[j + k]))]

\* parts[1] if parts[1] in '+-oA' else '.'   ("in" is the substring test)
SingleLineKey(parts) == IF IsSubstring(parts[2], <<"+","-","o","A">>) THEN parts[2] ELSE <<".">>

\* The single-line fallback: the first window of 8 integers at j >= 2.
\* Yields the players, or the exception the append raised.
SingleLine(parts, players) ==
    LET js == {j \in 2..(Len(parts) - ScoreboardArity) : WindowIsInts(parts, j)}
    IN  IF Len(parts) < 10 \/ js = {} THEN [exc |-> "", players |-> players]
        ELSE LET j == CHOOSE a \in js : \A b \in js : a <= b
                 key == SingleLineKey(parts)
             IN  IF ~HasKey(CLASS_MAP, key)
                 THEN [exc |-> "KeyError", players |-> players]
                 ELSE [exc |-> "",
                       players |-> Append(players,
                           PlayerData(parts[1], Get(CLASS_MAP, key),
                                      JoinSp(SubSeq(parts, 3, j)),
                                      WindowStats(parts, j)))]

\* a variant of LineHandler that catches IndexError only
LineHandlerIndexErrorOnly == {"IndexError"}

\* a variant of LineHandler that catches ValueError only
LineHandlerValueErrorOnly == {"ValueError"}

\* the classes of "except Exception as e" around one candidate line
LineHandler == {"Exception"}

\* a variant of CandidateLine that also tries the single-line layout after
\* the multi-line layout has emitted
CandidateLineBothLayouts(input, i, players) ==
    LET parts      == Split(Strip(input[i + 1]))
        next_line  == IF i + 1 < Len(input) THEN Strip(input[i + 2]) ELSE <<>>
        next_parts == Split(next_line)
        multi      == next_line # <<>> /\ next_parts # <<>>
                      /\ IsDigit(NoCommas(next_parts[1]))
        stats      == FirstStats(next_parts)
        emitted1   == IF multi /\ StatsComplete(stats)
                      THEN Append(players, MultiLinePlayer(parts, stats))
                           \o SecondPlayer(input, i, next_parts)
                      ELSE players
        r          == SingleLine(parts, emitted1)
    IN  IF r.exc # "" /\ ~Handles(LineHandler, r.exc)
        THEN [exc |-> r.exc, players |-> r.players, i |-> i, via |-> "none"]
        ELSE [exc |-> "", players |-> r.players,
              i |-> i + (IF Len(emitted1) > Len(players) /\ Len(next_parts) > ScoreboardArity
                         THEN 2 ELSE 1),
              via |-> IF Len(emitted1) > Len(players) THEN "multi"
                      ELSE IF Len(r.players) > Len(players) THEN "single" ELSE "none"]

\* The body of the while loop for a candidate line (it starts with a digit):
\* the players after it, the next index, the exception that escaped, and
\* the layout that emitted for this line ("multi", "single" or "none").
CandidateLine(input, i, players) ==
    LET parts      == Split(Strip(input[i + 1]))
        next_line  == IF i + 1 < Len(input) THEN Strip(input[i + 2]) ELSE <<>>
        next_parts == Split(next_line)
        multi      == next_line # <<>> /\ next_parts # <<>>
                      /\ IsDigit(NoCommas(next_parts[1]))
        stats      == FirstStats(next_parts)
    IN  IF multi /\ StatsComplete(stats)
        THEN [exc |-> "",
              players |-> Append(players, MultiLinePlayer(parts, stats))
                          \o SecondPlayer(input, i, next_parts),
              i |-> i + (IF Len(next_parts) > ScoreboardArity THEN 2 ELSE 1),
              via |-> "multi"]
        ELSE LET r == SingleLine(parts, players)
             IN  IF r.exc # "" /\ ~Handles(LineHandler, r.exc)
                 THEN [exc |-> r.exc, players |-> r.players, i |-> i, via |-> "none"]
                 ELSE [exc |-> "", players |-> r.players, i |-> i + 1,
                       via |-> IF Len(r.players) > Len(players) THEN "single"
                               ELSE "none"]

RECURSIVE ScoreboardLoop(_, _, _)
ScoreboardLoop(input, i, players) ==
    IF i >= Len(input) THEN [raised |-> FALSE, val |-> players]
    ELSE LET line == Strip(input[i + 1])
         IN  IF line = <<>> \/ ~IsDigitChar(line[1])
             THEN ScoreboardLoop(input, i + 1, players)
             ELSE LET r == CandidateLine(input, i, players)
                  IN  IF r.exc # "" THEN [raised |-> TRUE, val |-> r.exc]
                      ELSE ScoreboardLoop(input, r.i, r.players)

\* DataProcessor.process_scoreboard: the players, or the exception raised
process_scoreboard(input) == ScoreboardLoop(input, 0, <<>>)

\* The candidate lines the while loop visits, in order: for each its index,
\* the layout that emitted for it and the records it added.
RECURSIVE LayoutTrace(_, _, _)
LayoutTrace(input, i, players) ==
    IF i >= Len(input) THEN <<>>
    ELSE LET line == Strip(input[i + 1])
         IN  IF line = <<>> \/ ~IsDigitChar(line[1])
             THEN LayoutTrace(input, i + 1, players)
             ELSE LET r == CandidateLine(input, i, players)
                  IN  IF r.exc # "" THEN <<>>
                      ELSE << [line    |-> i,
                               via     |-> r.via,
                               emitted |-> SubSeq(r.players, Len(players) + 1,
                                                  Len(r.players))] >>
                           \o LayoutTrace(input, r.i, r.players)

----------------------------------------------------------------------------
(* General information: outcome, map name and date                         *)

Unknown == <<"U","n","k","n","o","w","n">>

MidnightTime == <<"0","0",":","0","0",":","0","0">>

RECURSIVE SplitOnFrom(_, _, _, _, _)
SplitOnFrom(s, c, k, cur, acc) ==
    IF k > Len(s) THEN Append(acc, cur)
    ELSE IF s[k] = c THEN SplitOnFrom(s, c, k + 1, <<>>, Append(acc, cur))
    ELSE SplitOnFrom(s, c, k + 1, Append(cur, s[k]), acc)

\* str.split(c) with a one-character separator: empty fields are kept
SplitOn(s, c) == SplitOnFrom(s, c, 1, <<>>, <<>>)

\* a variant of TimeInRange with the upper ends included
TimeInRangeInclusive(hours, minutes, seconds) ==
    /\ 0 <= hours   /\ hours <= 24
    /\ 0 <= minutes /\ minutes <= 60
    /\ 0 <= seconds /\ seconds <= 60

\* 0 <= hours < 24 and 0 <= minutes < 60 and 0 <= seconds < 60
TimeInRange(hours, minutes, seconds) ==
    /\ 0 <= hours   /\ hours < 24
    /\ 0 <= minutes /\ minutes < 60
    /\ 0 <= seconds /\ seconds < 60

\* hours, minutes, seconds = map(int, time_str.split(':')) and the range test:
\* "True", "False", or the exception raised by the unpacking or by int
TimeCheck(time_str) ==
    LET f == SplitOn(time_str, ":")
    IN  IF Len(f) # 3 \/ \E k \in 1..Len(f) : ~IsInt(f[k]) THEN "ValueError"
        ELSE IF TimeInRange(IntOf(f[1]), IntOf(f[2]), IntOf(f[3])) THEN "True"
        ELSE "False"

\* is_valid_time / MatchProcessor._is_valid_time: the try returns the test,
\* the except clause returns False
TimeHandler == {"Exception"}

is_valid_time(time_str) ==
    LET r == TimeCheck(time_str)
    IN  IF r \in {"True", "False"} THEN r
        ELSE IF Handles(TimeHandler, r) THEN "False" ELSE r

\* ---- clean_up_ocr_output.py ----

LEGACY_MAP_NAME_CORRECTIONS ==
    << <<<<"I","h","r","e","s","h","o","l","d","-","A","t","t","a","c",":"," ","a","n","d"," ","D","e","f","e","n","d">>, <<"T","h","r","e","s","h","o","l","d"," ","-"," ","A","t","t","a","c","k"," ","a","n","d"," ","D","e","f","e","n","d">>>>,
       <<<<"S","h","a","t","t","e","d"," ","-"," ","A","t","t","a","c","k"," ","a","n","d"," ","D","e","f","e","n","d">>, <<"S","h","a","t","t","e","r","e","d"," ","-"," ","A","t","t","a","c","k"," ","a","n","d"," ","D","e","f","e","n","d">>>>,
       <<<<"T","h","r","e","s","h","o","l","d","-","A","t","t","a","c","k"," ","a","n","d"," ","D","e","f","e","n","d">>, <<"T","h","r","e","s","h","o","l","d"," ","-"," ","A","t","t","a","c","k"," ","a","n","d"," ","D","e","f","e","n","d">>>>,
       <<<<"h","a","t","t","e","d"," ","-"," ","A","t","t","a","c","k"," ","a","n","d"," ","D","e","f","e","n","d">>, <<"S","h","a","t","t","e","r","e","d"," ","-"," ","A","t","t","a","c","k"," ","a","n","d"," ","D","e","f","e","n","d">>>>,
       <<<<"A","s","c","e","n","s","i","o","n","-","A","t","t","a","c",":"," ","a","n","d"," ","D","e","f","e","n","d">>, <<"A","s","c","e","n","s","i","o","n"," ","-"," ","A","t","t","a","c","k"," ","a","n","d"," ","D","e","f","e","n","d">>>> >>

LEGACY_OUTCOME_CORRECTIONS ==
    << <<<<"S","U","L","L","E","S","S">>, <<"S","U","C","C","E","S","S">>>>,
       <<<<"F","A","I","L","I","R","E">>, <<"F","A","I","L","U","R","E">>>>,
       <<<<"F","A","I","L","U","P","E">>, <<"F","A","I","L","U","R","E">>>>,
       <<<<"S","U","C","C","F","S","S">>, <<"S","U","C","C","E","S","S">>>> >>

\* outcome = CORRECTIONS.get(outcome, outcome); SUCCESS becomes VICTORY
NormalizeOutcome(table, raw) ==
    LET outcome == Correct(table, Strip(raw))
    IN  IF outcome = <<"S","U","C","C","E","S","S">> THEN <<"V","I","C","T","O","R","Y">> ELSE outcome

\* [line.strip() for line in ls if line.strip()]
RECURSIVE NonBlank(_, _)
NonBlank(ls, k) ==
    IF k > Len(ls) THEN <<>>
    ELSE IF Strip(ls[k]) # <<>> THEN <<Strip(ls[k])>> \o NonBlank(ls, k + 1)
    ELSE NonBlank(ls, k + 1)

\* a variant of LegacyYear that always takes the clock's year
LegacyYearAlwaysNow(parts, year_now) == StrOfNat(year_now)

\* year = parts[2] if len(parts) > 2 else str(datetime.datetime.now().year)
LegacyYear(parts, year_now) == IF Len(parts) > 2 THEN parts[3] ELSE StrOfNat(year_now)

\* The try block that formats the date; every exception is caught and
\* leaves the date string as it is.
LegacyFormatDate(date_str, year_now) ==
    LET parts == Split(date_str)
    IN  IF Len(parts) >= 2
        THEN LET time  == IF Len(parts) > 3 THEN parts[4] ELSE MidnightTime
                 valid == is_valid_time(time)
             IN  IF valid \notin {"True", "False"} THEN date_str
                 ELSE JoinSp(<<ZFill2(parts[1]), parts[2], LegacyYear(parts, year_now),
                               IF valid = "True" THEN time ELSE MidnightTime>>)
        ELSE date_str

\* The raw date of at least 3 input lines: the stripped non-blank lines after
\* the map line joined by spaces, " - " and "-" replaced by a space
LegacyDateStr(input_lines) ==
    LET plain      == ~HasChar(input_lines[2], "?")
        date_parts == NonBlank(From(input_lines, IF plain THEN 2 ELSE 3), 1)
    IN  Replace(Replace(JoinSp(date_parts), <<" ","-"," ">>, <<" ">>), <<"-">>, <<" ">>)

\* process_general_info of clean_up_ocr_output.py; year_now is the clock's year
legacy_process_general_info(input_lines, year_now) ==
    IF Len(input_lines) < 3 THEN <<Unknown, Unknown, Unknown>>
    ELSE LET outcome == NormalizeOutcome(LEGACY_OUTCOME_CORRECTIONS, input_lines[1])
             plain   == ~HasChar(input_lines[2], "?")
             map_name == IF plain THEN Strip(input_lines[2]) ELSE Strip(input_lines[3])
         IN  <<outcome,
               Correct(LEGACY_MAP_NAME_CORRECTIONS, map_name),
               LegacyFormatDate(LegacyDateStr(input_lines), year_now)>>

\* ---- components/process_match_data.py ----

MAP_NAME_CORRECTIONS ==
    << <<<<"I","h","r","e","s","h","o","l","d","-","A","t","t","a","c",":"," ","a","n","d"," ","D","e","f","e","n","d">>, <<"T","h","r","e","s","h","o","l","d"," ","-"," ","A","t","t","a","c","k"," ","a","n","d"," ","D","e","f","e","n","d">>>>,
       <<<<"S","h","a","t","t","e","d"," ","-"," ","A","t","t","a","c","k"," ","a","n","d"," ","D","e","f","e","n","d">>, <<"S","h","a","f","t","e","d"," ","-"," ","A","t","t","a","c","k"," ","a","n","d"," ","D","e","f","e","n","d">>>>,
       <<<<"T","h","r","e","s","h","o","l","d","-","A","t","t","a","c","k"," ","a","n","d"," ","D","e","f","e","n","d">>, <<"T","h","r","e","s","h","o","l","d"," ","-"," ","A","t","t","a","c","k"," ","a","n","d"," ","D","e","f","e","n","d">>>>,
       <<<<"h","a","t","t","e","d"," ","-"," ","A","t","t","a","c","k"," ","a","n","d"," ","D","e","f","e","n","d">>, <<"S","h","a","f","t","e","d"," ","-"," ","A","t","t","a","c","k"," ","a","n","d"," ","D","e","f","e","n","d">>>>,
       <<<<"A","s","c","e","n","s","i","o","n","-","A","t","t","a","c",":"," ","a","n","d"," ","D","e","f","e","n","d">>, <<"A","s","c","e","n","s","i","o","n"," ","-"," ","A","t","t","a","c","k"," ","a","n","d"," ","D","e","f","e","n","d">>>>,
       <<<<"C","r","a","c","k","e","d","-","A","t","t","a","c",":"," ","a","n","d"," ","D","e","f","e","n","d">>, <<"C","r","a","c","k","e","d"," ","-"," ","A","t","t","a","c","k"," ","a","n","d"," ","D","e","f","e","n","d">>>>,
       <<<<"S","h","a","f","t","e","d","-","A","t","t","a","c",":"," ","a","n","d"," ","D","e","f","e","n","d">>, <<"S","h","a","f","t","e","d"," ","-"," ","A","t","t","a","c","k"," ","a","n","d"," ","D","e","f","e","n","d">>>>,
       <<<<"T","r","e","n","c","h"," ","i","n","e","s"," ","-"," ","A","t","t","a","c","k"," ","a","n","d"," ","D","e","f","e","n","d">>, <<"T","r","e","n","c","h"," ","L","i","n","e","s"," ","-"," ","A","t","t","a","c","k"," ","a","n","d"," ","D","e","f","e","n","d">>>>,
       <<<<"T","r","e","n","c","h"," ","i","n","e","s","-","A","t","t","a","c","k"," ","a","n","d"," ","D","e","f","e","n","d">>, <<"T","r","e","n","c","h"," ","L","i","n","e","s"," ","-"," ","A","t","t","a","c","k"," ","a","n","d"," ","D","e","f","e","n","d">>>>,
       <<<<"C","r","a","c","k","e","d","-","A","t","t","a","c","k"," ","a","n","d"," ","D","e","f","e","n","d">>, <<"C","r","a","c","k","e","d"," ","-"," ","A","t","t","a","c","k"," ","a","n","d"," ","D","e","f","e","n","d">>>>,
       <<<<"S","h","a","t","t","e","d"," ","-"," ","A","t","t","a","c","k"," ","a","n","d"," ","D","e","t","e","n","d">>, <<"S","h","a","f","t","e","d"," ","-"," ","A","t","t","a","c","k"," ","a","n","d"," ","D","e","f","e","n","d">>>>,
       <<<<"K","n","i","t","e"," ","E","d","g","e"," ","-"," ","A","t","t","a","c","k"," ","a","n","d"," ","D","e","f","e","n","d">>, <<"K","n","i","f","e"," ","E","d","g","e"," ","-"," ","A","t","t","a","c","k"," ","a","n","d"," ","D","e","f","e","n","d">>>>,
       <<<<"T","h","r","e","s","h","o","l","d"," ","-"," ","A","t","t","a","c","k"," ","a","n","d"," ","D","e","t","e","n","d">>, <<"T","h","r","e","s","h","o","l","d"," ","-"," ","A","t","t","a","c","k"," ","a","n","d"," ","D","e","f","e","n","d">>>> >>

OUTCOME_CORRECTIONS ==
    << <<<<"S","U","L","L","E","S","S">>, <<"S","U","C","C","E","S","S">>>>,
       <<<<"F","A","I","L","I","R","E">>, <<"F","A","I","L","U","R","E">>>>,
       <<<<"F","A","I","L","U","P","E">>, <<"F","A","I","L","U","R","E">>>>,
       <<<<"S","U","C","C","F","S","S">>, <<"S","U","C","C","E","S","S">>>>,
       <<<<"V","I","L","I","O","R","Y">>, <<"V","I","C","T","O","R","Y">>>> >>

TEAM_NAME_CORRECTIONS ==
    << <<<<"G","T","I">>, <<"A","T","T","A","C","K">>>>,
       <<<<"H","A","A","V","K">>, <<"D","E","F","E","N","S","E">>>> >>

MonthAbbreviations ==
    {<<"j","a","n">>, <<"f","e","b">>, <<"m","a","r">>, <<"a","p","r">>, <<"m","a","y">>, <<"j","u","n">>,
     <<"j","u","l">>, <<"a","u","g">>, <<"s","e","p">>, <<"o","c","t">>, <<"n","o","v">>, <<"d","e","c">>}

\* part.rstrip('.').lower() in [...]
IsMonth(part) == Lower(RStripChar(part, ".")) \in MonthAbbreviations

\* a variant of MatchOutcome without the SUCCESS to VICTORY step
MatchOutcomeNoSuccessRule(raw) ==
    Strip(Replace(Correct(OUTCOME_CORRECTIONS, Strip(raw)), <<"?">>, <<>>))

\* outcome of lines[0]: corrected, SUCCESS to VICTORY, "?" removed, stripped
MatchOutcome(raw) ==
    Strip(Replace(NormalizeOutcome(OUTCOME_CORRECTIONS, raw), <<"?">>, <<>>))

\* a variant of ValidLines that keeps the "?" lines
ValidLinesKeepQuestion(ls, k) == NonBlank(ls, k)

\* a variant of ValidLines that drops the "?" lines and keeps the blank ones
RECURSIVE ValidLinesKeepBlank(_, _)
ValidLinesKeepBlank(ls, k) ==
    IF k > Len(ls) THEN <<>>
    ELSE IF Strip(ls[k]) # <<"?">>
         THEN <<Strip(ls[k])>> \o ValidLinesKeepBlank(ls, k + 1)
         ELSE ValidLinesKeepBlank(ls, k + 1)

\* [line.strip() for line in lines[1:] if line.strip() and line.strip() != "?"]
RECURSIVE ValidLines(_, _)
ValidLines(ls, k) ==
    IF k > Len(ls) THEN <<>>
    ELSE IF Strip(ls[k]) # <<>> /\ Strip(ls[k]) # <<"?">>
         THEN <<Strip(ls[k])>> \o ValidLines(ls, k + 1)
         ELSE ValidLines(ls, k + 1)

\* map name and raw date from the valid lines
MapAndDate(valid_lines) ==
    IF valid_lines = <<>> THEN [map_name |-> Unknown, date_str |-> Unknown]
    ELSE LET map_line == valid_lines[1]
             words    == Split(map_line)
             months   == {i \in 0..(Len(words) - 1) : IsMonth(words[i + 1])}
             split    == IF months = {} THEN [map_name |-> Unknown, date_str |-> Unknown]
                         ELSE LET i == CHOOSE a \in months : \A b \in months : a <= b
                              IN  [map_name |-> JoinSp(UpTo(words, i - 1)),
                                   date_str |-> JoinSp(FromNeg(words, i - 1))]
         IN  IF split.date_str = Unknown
             THEN [map_name |-> map_line,
                   date_str |-> IF Len(valid_lines) > 1 THEN valid_lines[2] ELSE Unknown]
             ELSE split

\* if len(parts) >= 3
HasDayMonthYear(parts) == Len(parts) >= 3

\* the classes of "except Exception as e" around the date formatting
DateHandler == {"Exception"}

\* The try block that formats the date: the date string, or the exception
\* that escaped the handler (which sets the date to "Unknown").
MatchFormatDate(date_str) ==
    IF date_str = <<>> \/ date_str = Unknown THEN [exc |-> "", date |-> date_str]
    ELSE LET parts == Split(date_str)
         IN  IF HasDayMonthYear(parts)
             THEN LET time  == IF Len(parts) > 3 THEN parts[4] ELSE MidnightTime
                      valid == is_valid_time(time)
                  IN  IF valid \notin {"True", "False"}
                      THEN IF Handles(DateHandler, valid)
                           THEN [exc |-> "", date |-> Unknown]
                           ELSE [exc |-> valid, date |-> date_str]
                      ELSE [exc |-> "",
                            date |-> JoinSp(<<ZFill2(parts[1]),
                                              RStripChar(parts[2], "."),
                                              parts[3],
                                              IF valid = "True" THEN time
                                              ELSE MidnightTime>>)]
             ELSE [exc |-> "", date |-> date_str]

\* MatchProcessor.process_general_info: the triple, or the exception raised
process_general_info(input) ==
    IF Len(input) < 2 THEN [raised |-> FALSE, val |-> <<Unknown, Unknown, Unknown>>]
    ELSE LET md == MapAndDate(ValidLines(From(input, 1), 1))
             d  == MatchFormatDate(md.date_str)
         IN  IF d.exc # "" THEN [raised |-> TRUE, val |-> d.exc]
             ELSE [raised |-> FALSE,
                   val |-> <<MatchOutcome(input[1]),
                             Correct(MAP_NAME_CORRECTIONS, md.map_name),
                             d.date>>]

----------------------------------------------------------------------------
(* components/extract_medals.py                                            *)

MEDAL_TYPES ==
    << <<"C","o","m","b","a","t"," ","B","r","o","n","z","e"," ","M","e","d","a","l">>, <<"C","o","m","b","a","t"," ","S","i","l","v","e","r"," ","M","e","d","a","l">>, <<"C","o","m","b","a","t"," ","G","o","l","d"," ","M","e","d","a","l">>,
       <<"C","a","p","t","u","r","e"," ","B","r","o","n","z","e"," ","M","e","d","a","l">>, <<"C","a","p","t","u","r","e"," ","S","i","l","v","e","r"," ","M","e","d","a","l">>, <<"C","a","p","t","u","r","e"," ","G","o","l","d"," ","M","e","d","a","l">>,
       <<"L","o","g","i","s","t","i","c","s"," ","B","r","o","n","z","e"," ","M","e","d","a","l">>, <<"L","o","g","i","s","t","i","c","s"," ","S","i","l","v","e","r"," ","M","e","d","a","l">>, <<"L","o","g","i","s","t","i","c","s"," ","G","o","l","d"," ","M","e","d","a","l">>,
       <<"I","n","t","e","l","l","i","g","e","n","c","e"," ","B","r","o","n","z","e"," ","M","e","d","a","l">>, <<"I","n","t","e","l","l","i","g","e","n","c","e"," ","S","i","l","v","e","r"," ","M","e","d","a","l">>,
       <<"I","n","t","e","l","l","i","g","e","n","c","e"," ","G","o","l","d"," ","M","e","d","a","l">> >>

Categories == <<<<"C","o","m","b","a","t">>, <<"C","a","p","t","u","r","e">>, <<"L","o","g","i","s","t","i","c","s">>, <<"I","n","t","e","l","l","i","g","e","n","c","e">>>>

\* a variant of HighestTier that scans the tiers from Bronze up
HighestTierLowestFirst(results, i) ==
    IF results[i * 3 + 1] THEN 0
    ELSE IF results[i * 3 + 2] THEN 1
    ELSE IF results[i * 3 + 3] THEN 2
    ELSE -1

\* for j in range(2, -1, -1): if results[i * 3 + j]: ... break
\* the tier offset j that is reported for category i (0-based), or -1
HighestTier(results, i) ==
    IF results[i * 3 + 3] THEN 2
    ELSE IF results[i * 3 + 2] THEN 1
    ELSE IF results[i * 3 + 1] THEN 0
    ELSE -1

RECURSIVE HighestFrom(_, _, _)
HighestFrom(results, medals, i) ==
    IF i > 3 THEN <<>>
    ELSE LET j == HighestTier(results, i)
         IN  (IF j >= 0 THEN <<medals[i * 3 + j + 1]>> ELSE <<>>)
             \o HighestFrom(results, medals, i + 1)

\* get_highest_rank_medals, given the 12 results of check_pixels
get_highest_rank_medals(results, medals) == HighestFrom(results, medals, 0)

\* process_images_in_folder: the text written to medals_<name>.txt
RECURSIVE MedalsFileText(_, _)
MedalsFileText(highest_rank_medals, k) ==
    IF k > Len(highest_rank_medals) THEN <<>>
    ELSE highest_rank_medals[k] \o <<"\n">>
         \o MedalsFileText(highest_rank_medals, k + 1)

----------------------------------------------------------------------------
(* components/process_match_data.py: MedalProcessor and write_csv          *)

\* A file of the workflow directory: absent, or its text
NoFile == [exists |-> FALSE, text |-> <<>>]

FileOf(text) == [exists |-> TRUE, text |-> text]

\* DataProcessor.read_file: None (modelled as none = TRUE) or
\* file.read().strip().split('\n')
read_file(file) ==
    IF ~file.exists THEN [none |-> TRUE, lines |-> <<>>]
    ELSE [none |-> FALSE, lines |-> SplitOn(Strip(file.text), "\n")]

\* line.strip() == medal
MedalLineMatches(line, medal) == Strip(line) = medal

\* sum(1 for line in lines if line.strip() == medal)
MedalCount(ls, medal) == Cardinality({k \in 1..Len(ls) : MedalLineMatches(ls[k], medal)})

\* MedalProcessor.process_medals: the dict as <<medal, count>> pairs; {} is <<>>
process_medals(file) ==
    LET r == read_file(file)
    IN  IF r.none \/ r.lines = <<>> THEN <<>>
        ELSE [k \in 1..Len(MEDAL_TYPES) |->
                 <<MEDAL_TYPES[k], MedalCount(r.lines, MEDAL_TYPES[k])>>]

\* f"{category} {level} Medal"
MedalName(category, level) == category \o <<" ">> \o level \o <<" ","M","e","d","a","l">>

MedalPresent(medals, category, level) ==
    /\ HasKey(medals, MedalName(category, level))
    /\ Get(medals, MedalName(category, level)) > 0

\* a variant of get_highest_medal that tries the levels from Bronze up
get_highest_medal_lowest_first(medals, category) ==
    IF MedalPresent(medals, category, <<"B","r","o","n","z","e">>) THEN <<"B","r","o","n","z","e">>
    ELSE IF MedalPresent(medals, category, <<"S","i","l","v","e","r">>) THEN <<"S","i","l","v","e","r">>
    ELSE IF MedalPresent(medals, category, <<"G","o","l","d">>) THEN <<"G","o","l","d">>
    ELSE <<"N","o","n","e">>

\* MedalProcessor.get_highest_medal
get_highest_medal(medals, category) ==
    IF MedalPresent(medals, category, <<"G","o","l","d">>) THEN <<"G","o","l","d">>
    ELSE IF MedalPresent(medals, category, <<"S","i","l","v","e","r">>) THEN <<"S","i","l","v","e","r">>
    ELSE IF MedalPresent(medals, category, <<"B","r","o","n","z","e">>) THEN <<"B","r","o","n","z","e">>
    ELSE <<"N","o","n","e">>

CSV_HEADERS ==
    << <<"O","u","t","c","o","m","e">>, <<"M","a","p">>, <<"D","a","t","a">>, <<"T","e","a","m">>, <<"R","a","n","k">>, <<"C","l","a","s","s">>, <<"N","a","m","e">>,
       <<"S","c","o","r","e">>, <<"K","i","l","l","s">>, <<"D","e","a","t","h","s">>, <<"A","s","s","i","s","t","s">>, <<"R","e","v","i","v","e","s">>,
       <<"V","e","h","i","c","l","e"," ","D","a","m","a","g","e">>, <<"C","a","p","t","u","r","e","s">>, <<"T","a","c","t","i","c","a","l"," ","R","e","s","p","a","w","n">>, <<"C","o","m","b","a","t"," ","M","e","d","a","l">>,
       <<"C","a","p","t","u","r","e"," ","M","e","d","a","l">>, <<"L","o","g","i","s","t","i","c","s"," ","M","e","d","a","l">>, <<"I","n","t","e","l","l","i","g","e","n","c","e"," ","M","e","d","a","l">> >>

\* team_name = TEAM_NAME_CORRECTIONS.get(team_name, team_name)
CorrectTeam(team_name) == Correct(TEAM_NAME_CORRECTIONS, team_name)

\* a variant of RowStats that writes stats[6] before stats[5]
RowStatsCapturesFirst(stats) ==
    IF Len(stats) >= 8
    THEN SubSeq(stats, 1, 5) \o <<stats[7], stats[6], stats[8]>>
    ELSE <<0, 0, 0, 0, 0, 0, 0, 0>>

\* the 8 stats of a row: player.stats[0..7], or zeros when fewer than 8
RowStats(stats) ==
    IF Len(stats) >= 8 THEN SubSeq(stats, 1, 8) ELSE <<0, 0, 0, 0, 0, 0, 0, 0>>

\* a variant of CsvRow that gives the medals to the player ranked 1 only
CsvRowMedalsOfTheFirst(player, outcome, map_name, date, team_name, medals) ==
    <<outcome, map_name, date, team_name,
      player.prefix, player.player_class, player.name>>
    \o RowStats(player.stats)
    \o [c \in 1..Len(Categories) |->
           IF player.prefix = <<"1">> THEN get_highest_medal(medals, Categories[c])
           ELSE <<"N","o","n","e">>]

\* one row of write_csv
CsvRow(player, outcome, map_name, date, team_name, medals) ==
    <<outcome, map_name, date, team_name,
      player.prefix, player.player_class, player.name>>
    \o RowStats(player.stats)
    \o [c \in 1..Len(Categories) |-> get_highest_medal(medals, Categories[c])]

\* a variant of write_csv that keeps the row of the last player only
write_csv_last_player_only(players, outcome, map_name, date, team_name, medals) ==
    [header |-> CSV_HEADERS,
     rows   |-> IF players = <<>> THEN <<>>
                ELSE <<CsvRow(players[Len(players)], outcome, map_name, date,
                              CorrectTeam(team_name), medals)>>]

\* MatchProcessor.write_csv: the header row and the rows written
write_csv(players, outcome, map_name, date, team_name, medals) ==
    [header |-> CSV_HEADERS,
     rows   |-> [p \in 1..Len(players) |->
                    CsvRow(players[p], outcome, map_name, date,
                           CorrectTeam(team_name), medals)]]


----------------------------------------------------------------------------
(* src/data/database.py: Database.import_csv_worker on the matches table,  *)
(* one sqlite3 connection per thread (ConnectionPool), driven by           *)
(* ImportWorker.process of src/gui/dialogs/import_progress.py.             *)
(*                                                                         *)
(* A CSV file is the sequence of its rows, the header row first. A dict is *)
(* a sequence of <<key, value>> pairs in insertion order. The rows a       *)
(* connection has inserted and not yet committed are seen by that          *)
(* connection only; the first INSERT of a connection takes the write lock  *)
(* of the database file, and commit releases it.                           *)

\* dict[key] = value: an existing key keeps its place
DictSet(d, key, value) ==
    IF HasKey(d, key)
    THEN [k \in 1..Len(d) |-> IF d[k][1] = key THEN <<key, value>> ELSE d[k]]
    ELSE Append(d, <<key, value>>)

\* sql_name = header.lower().strip().replace(' ', '_'), then only the
\* characters that are alphanumeric or "_"
SqlName(header) ==
    SelectSeq(Replace(Strip(Lower(header)), <<" ">>, <<"_">>),
              LAMBDA c : IsAlphaChar(c) \/ IsDigitChar(c) \/ c = "_")

\* {headers[i]: first_row[i] for i in range(len(headers))}
RECURSIVE RowDict(_, _, _)
RowDict(headers, first_row, i) ==
    IF i = 0 THEN <<>>
    ELSE DictSet(RowDict(headers, first_row, i - 1), headers[i], first_row[i])

\* Database._create_snapshot_name: the name, or the exception raised
create_snapshot_name(headers, first_row) ==
    IF Len(first_row) < Len(headers) THEN [exc |-> "IndexError", name |-> <<>>]
    ELSE LET row_dict == RowDict(headers, first_row, Len(headers))
             keys     == << <<"O","u","t","c","o","m","e">>, <<"M","a","p">>, <<"D","a","t","a">>, <<"T","e","a","m">> >>
         IN  IF \E k \in 1..4 : ~HasKey(row_dict, keys[k])
             THEN [exc |-> "KeyError", name |-> <<>>]
             ELSE [exc |-> "",
                   name |-> Join([k \in 1..4 |-> Get(row_dict, keys[k])], <<" ","-"," ">>)]

\* one record of Database._prepare_records
RECURSIVE PrepareRecord(_, _, _, _)
PrepareRecord(row, headers, snapshot_name, j) ==
    IF j = 0 THEN << << <<"s","n","a","p","s","h","o","t","_","n","a","m","e">>, snapshot_name >> >>
    ELSE LET before == PrepareRecord(row, headers, snapshot_name, j - 1)
         IN  IF j <= Len(headers)
             THEN DictSet(before, SqlName(headers[j]), row[j])
             ELSE before

\* Database._prepare_records
prepare_records(rows, headers, snapshot_name) ==
    [r \in 1..Len(rows) |-> PrepareRecord(rows[r], headers, snapshot_name, Len(rows[r]))]

\* the columns of the matches table after Database.create_database
CreatedColumns == { <<"i","d">>, <<"s","n","a","p","s","h","o","t","_","n","a","m","e">> }

\* the columns _ensure_columns_exist has to add for the headers
MissingColumns(headers, columns) ==
    {SqlName(headers[k]) : k \in 1..Len(headers)} \ (columns \cup { <<"i","d">> })

\* SELECT COUNT(*) FROM matches WHERE snapshot_name = ?, over the rows a
\* connection sees
CountSnapshot(visible, snapshot_name) ==
    Cardinality({k \in 1..Len(visible) :
                    Get(visible[k].record, <<"s","n","a","p","s","h","o","t","_","n","a","m","e">>) = snapshot_name})

\* ConnectionPool.connection, leaving the with block: "finally: conn.commit()"
\* commits the rows inserted, however the block was left
ExitConnection(matches, pending) == matches \o pending

\* the outcome of import_csv_worker before it takes the connection: the
\* snapshot name of the file, or the value returned, or the exception raised
ReadCsv(file) ==
    IF ~file.exists THEN [result |-> "FileNotFoundError", snapshot_name |-> <<>>]
    ELSE IF file.text = <<>> THEN [result |-> "StopIteration", snapshot_name |-> <<>>]
    ELSE IF Tail(file.text) = <<>> THEN [result |-> "False", snapshot_name |-> <<>>]
    ELSE LET s == create_snapshot_name(file.text[1], file.text[2])
         IN  IF s.exc # "" THEN [result |-> s.exc, snapshot_name |-> <<>>]
             ELSE [result |-> "", snapshot_name |-> s.name]

----------------------------------------------------------------------------
(* run.py: ProcessingThread.run over the scripts of process_screenshots    *)

\* scripts of DeltaForceLeaderboard.process_screenshots
PipelineScripts ==
    << "components/crop_regions.py",
       "components/extract_medals.py",
       "components/extract_team_name.py",
       "components/batch_ocr_processor.py",
       "components/process_match_data.py" >>

\* int(((i) / total_scripts) * 100) for halves = 2i, and
\* int(((i + 0.5) / total_scripts) * 100) for halves = 2i + 1
Percent(halves, total_scripts) == (halves * 100) \div (2 * total_scripts)

\* a variant of ScriptFailed that takes only a negative return code (a
\* signal) for a failure
ScriptFailedBySignalOnly(returncode) == returncode < 0

\* if process.returncode != 0
ScriptFailed(returncode) == returncode # 0

----------------------------------------------------------------------------
(* src/utils/update_checker.py: UpdateChecker.check_for_updates            *)

\* self.cache_ttl = 3600
CacheTtl == 3600

\* no cache file
NoCache == [exists |-> FALSE, timestamp |-> 0, is_update_available |-> FALSE,
            latest_version |-> <<>>, download_url |-> "", release_notes |-> ""]

\* re.sub(r'^v', '', s).strip().lower()
CleanVersion(s) == Lower(Strip(IF StartsWith(s, <<"v">>) THEN Tail(s) ELSE s))

\* packaging.version.parse of a cleaned string, for final releases written
\* N(.N)* with an optional "v": the release numbers, or InvalidVersion
ParseVersion(s) ==
    LET body  == IF StartsWith(s, <<"v">>) THEN Tail(s) ELSE s
        parts == SplitOn(body, ".")
    IN  IF body # <<>> /\ \A k \in 1..Len(parts) : IsDigit(parts[k])
        THEN [valid |-> TRUE, release |-> [k \in 1..Len(parts) |-> IntOf(parts[k])]]
        ELSE [valid |-> FALSE, release |-> <<>>]

\* release number k of a parsed version, 0 past its end (1.0 equals 1.0.0)
ReleasePart(release, k) == IF k <= Len(release) THEN release[k] ELSE 0

\* latest_parsed > current_parsed
NewerRelease(latest, current) ==
    \E k \in 1..(Len(latest) + Len(current)) :
        /\ ReleasePart(latest, k) > ReleasePart(current, k)
        /\ \A j \in 1..(k - 1) : ReleasePart(latest, j) = ReleasePart(current, j)

\* is_update_available of check_for_updates for the tag of the latest release
IsUpdateAvailable(current_version, latest_version_tag) ==
    IF Strip(current_version) = Strip(latest_version_tag) THEN FALSE
    ELSE LET clean_current == CleanVersion(current_version)
             clean_latest  == CleanVersion(latest_version_tag)
         IN  IF clean_current = clean_latest THEN FALSE
             ELSE LET current_parsed == ParseVersion(clean_current)
                      latest_parsed  == ParseVersion(clean_latest)
                  IN  IF ~current_parsed.valid \/ ~latest_parsed.valid THEN FALSE
                      ELSE NewerRelease(latest_parsed.release, current_parsed.release)

\* UpdateChecker._get_cached_data: the cached tuple, or None
get_cached_data(cache, time) ==
    IF ~cache.exists THEN [none |-> TRUE, data |-> <<>>]
    ELSE IF time - cache.timestamp > CacheTtl THEN [none |-> TRUE, data |-> <<>>]
    ELSE [none |-> FALSE,
          data |-> <<cache.is_update_available, cache.latest_version,
                     cache.download_url, cache.release_notes>>]

\* UpdateChecker._cache_update_data
cache_update_data(result, time) ==
    [exists |-> TRUE, timestamp |-> time, is_update_available |-> result[1],
     latest_version |-> result[2], download_url |-> result[3],
     release_notes |-> result[4]]

\* UpdateChecker.check_for_updates: the tuple returned, where it came from
\* and the cache file afterwards. response is the answer of the GitHub API
\* (ok = FALSE when the request raised), writable whether the cache file
\* could be written.
check_for_updates(force_check, current_version, cache, time, response, writable) ==
    LET cached == get_cached_data(cache, time)
    IN  IF ~force_check /\ ~cached.none
        THEN [result |-> cached.data, from |-> "cache", cache |-> cache]
        ELSE IF ~response.ok
        THEN IF ~cached.none
             THEN [result |-> cached.data, from |-> "cache", cache |-> cache]
             ELSE [result |-> <<FALSE, <<>>, "", "error">>, from |-> "error", cache |-> cache]
        ELSE LET latest_version_tag  == response.tag_name
                 is_update_available ==
                     /\ IsUpdateAvailable(current_version, latest_version_tag)
                     /\ latest_version_tag # current_version
                 result == IF is_update_available
                           THEN <<TRUE, latest_version_tag, "html_url", "body">>
                           ELSE <<FALSE, latest_version_tag, "", "">>
             IN  [result |-> result, from |-> "api",
                  cache  |-> IF writable THEN cache_update_data(result, time) ELSE cache]

----------------------------------------------------------------------------
(* Bounds and inputs of the application                                    *)

ImportThreads == 2

MaxStdoutLines == 1

MaxRuns == 2

MaxHours == 1

\* the threads that run an ImportWorker
ThreadIds == 1..ImportThreads

ImportHeaders == << <<"O","u","t","c","o","m","e">>, <<"M","a","p">>, <<"D","a","t","a">>, <<"T","e","a","m">>, <<"N","a","m","e">> >>

\* a row of a processed CSV for a player of a match on a map
MatchRow(map, name) == << <<"V","I","C","T","O","R","Y">>, map, <<"2","0"," ","J","a","n"," ","2","0","2","5">>, <<"G","T","I">>, name >>

\* the CSV files on disk: two files of one match (the second with one more
\* column and one more player), a file whose second row is cut short, a
\* file with a header only, an empty file, a file whose first row is cut
\* short, and a name with no file
ImportDisk ==
    << <<"m1.csv", FileOf(<<ImportHeaders, MatchRow(<<"C","r","a","c","k","e","d">>, <<"A","l">>)>>)>>,
       <<"m1_again.csv",
         FileOf(<<Append(ImportHeaders, <<"T","a","c","t","i","c","a","l"," ","R","e","s","p","a","w","n">>),
                  Append(MatchRow(<<"C","r","a","c","k","e","d">>, <<"A","l">>), <<"7">>),
                  Append(MatchRow(<<"C","r","a","c","k","e","d">>, <<"B","o">>), <<"0">>)>>)>>,
       <<"m2.csv",
         FileOf(<<ImportHeaders, MatchRow(<<"A","s","c","e","n","s","i","o","n">>, <<"A","l">>),
                  << <<"V","I","C","T","O","R","Y">>, <<"A","s","c","e","n","s","i","o","n">> >> >>)>>,
       <<"empty.csv", FileOf(<<ImportHeaders>>)>>,
       <<"blank.csv", FileOf(<<>>)>>,
       <<"short.csv", FileOf(<<ImportHeaders, << <<"V","I","C","T","O","R","Y">> >> >>)>>,
       <<"gone.csv", NoFile>> >>

\* the lists of files an ImportWorker is given
WorkerFiles(t) ==
    IF t = 1
    THEN { <<"m1.csv">>, <<"m1.csv", "m1_again.csv">>, <<"m2.csv", "m2.csv">>,
           <<"empty.csv", "gone.csv">>, <<"blank.csv", "short.csv">> }
    ELSE { <<>>, <<"m1_again.csv">>, <<"m1.csv">>, <<"m2.csv">> }

\* return codes of a script: success, an error, killed by a signal
ReturnCodes == {0, 1, -9}

\* APP_VERSION of the running application
AppVersions == { <<"v","1",".","0">>, <<"v","1",".","1">>, <<"1",".","1",".","0">> }

\* tag names of the latest release
ReleaseTags == { <<"v","1",".","0">>, <<"v","1",".","1">>, <<" ","V","1",".","1"," ">>, <<"l","a","t","e","s","t">> }

\* the database after Database.create_database, nothing imported
NewDatabase == [matches |-> <<>>, columns |-> CreatedColumns, lock |-> 0]

\* no thread has asked the pool for a connection
NoConnections == [t \in ThreadIds |-> [open |-> FALSE, pending |-> <<>>]]

\* an ImportWorker for the files, process not yet started
ImportWorker(files_) ==
    [files |-> files_, i |-> 0, pc |-> "next", k |-> 0, result |-> "", file_status |-> <<>>]

\* no ProcessingThread yet
NoThread ==
    [pc |-> "idle", i |-> 0, lines |-> 0, started |-> <<>>, codes |-> <<>>,
     progress_update |-> <<>>, process_complete |-> <<>>, runs |-> 0]

\* check_for_updates has not returned yet
NoResult == [result |-> <<>>, from |-> "none", running |-> <<>>]

ImportAtRest ==
    /\ db = NewDatabase
    /\ connections = NoConnections
    /\ workers = [t \in ThreadIds |-> ImportWorker(<<>>)]

PipelineAtRest == processing_thread = NoThread

UpdateAtRest ==
    /\ update_checker = [current_version |-> <<"v","1",".","0">>, cache |-> NoCache, last |-> NoResult]
    /\ world = [release |-> <<"v","1",".","0">>, time |-> 0]

AppsAtRest == ImportAtRest /\ PipelineAtRest /\ UpdateAtRest
\* the team name of a match: the stripped first line of the team file, when
\* the file exists and that line is not blank
TeamName(team_file) ==
    LET r == read_file(team_file)
    IN  IF team_file.exists /\ ~r.none /\ r.lines # <<>> /\ Strip(r.lines[1]) # <<>>
        THEN Strip(r.lines[1])
        ELSE Unknown

\* read_file(path) or []
LinesOrEmpty(file) == IF read_file(file).none THEN <<>> ELSE read_file(file).lines

\* MatchProcessor.process_single_match, given the four files of one match
\* (match = [scoreboard, general, medals, team]): the CSV file written, or
\* NoFile when it returns before writing
process_single_match(match) ==
    IF ~match.general.exists THEN [raised |-> FALSE, csv |-> NoFile]
    ELSE LET Written(scoreboard_data, info, team_name, medals_data) ==
                 IF scoreboard_data.raised \/ info.raised
                 THEN [raised |-> TRUE, csv |-> NoFile]
                 ELSE [raised |-> FALSE,
                       csv |-> FileOf(write_csv(scoreboard_data.val,
                                                info.val[1], info.val[2], info.val[3],
                                                team_name, medals_data))]
         \* each of the four results is computed once and then handed on
         IN  CHOOSE r \in
                 {Written(scoreboard_data, info, team_name, medals_data) :
                      scoreboard_data \in {process_scoreboard(LinesOrEmpty(match.scoreboard))},
                      info \in {process_general_info(LinesOrEmpty(match.general))},
                      team_name \in {TeamName(match.team)},
                      medals_data \in {process_medals(match.medals)}} : TRUE

----------------------------------------------------------------------------
(* Inputs                                                                  *)

MaxLines == 3

MaxMedalLines == 2

MaxTicks == 1

FirstYear == 2025

Years == FirstYear..(FirstYear + MaxTicks)

\* the text of a file holding the given lines
Text(ls) == Join(ls, <<"\n">>)

ScoreVocab ==
    { <<"1"," ","+"," ","J","o","h","n"," ","D","o","e">>,
      <<"2"," ","S","e","n","i","o","r","M","o","o">>,
      <<"5","0"," ","1"," ","3"," ","0"," ","0"," ","1">>,
      <<"1",",","2","0","0"," ","5"," ","2"," ","1"," ","0"," ","3"," ","4"," ","7">>,
      <<"9"," ","8"," ","7"," ","6"," ","5"," ","4"," ","3"," ","2"," ","3"," ","A"," ","B","o","b">>,
      <<"1","0","0"," ","5"," ","2">> }

\* name lines that carry a rank, a glyph of class_map and name tokens
GlyphNameLines ==
    { <<"1"," ","+"," ","J","o","h","n"," ","D","o","e">>, <<"3"," ","o"," ","A","l">>, <<"4"," ","A"," ","B","o"," ","L","i">>, <<"5"," ","."," ","E","n","g">>,
      <<"6"," ","+"," ","1","2","3">>, <<"7"," ","+"," ","-"," ","B","o","b">>, <<"8"," ","."," ","A">> }

\* stat lines after a name line: 6 purely-digit tokens in all, but for the last
StatBlocks ==
    { << <<"5","0"," ","1"," ","3"," ","0"," ","0"," ","1">> >>,
      << <<"1","0","0"," ","5"," ","2">>, <<"1"," ","0"," ","3">> >>,
      << <<"1","0","0">>, <<"5">>, <<"2">>, <<"1">>, <<"0">>, <<"3">> >>,
      << <<"1",",","0","0","0"," ","5","0"," ","1"," ","3"," ","0"," ","0"," ","1">> >>,
      << <<"5","0"," ","1"," ","3"," ","0"," ","0">> >> }

GlyphBlocks == {<<n>> \o b : n \in GlyphNameLines, b \in StatBlocks}

ScoreScenarios ==
    { << <<"2"," ","S","e","n","i","o","r","M","o","o">>, <<"5","0"," ","1"," ","3"," ","0"," ","0"," ","1">> >>,
      << <<"4"," ","o"," ","A","l"," ","1","0"," ","1"," ","2"," ","3"," ","4"," ","5"," ","6"," ","7">> >>,
      << <<"2"," ","S","e","n","i","o","r","M","o","o"," ","5","0"," ","1"," ","3"," ","0"," ","0"," ","1"," ","0"," ","0">> >>,
      << <<"5"," ","o","A"," ","Z","e","d"," ","1"," ","2"," ","3"," ","4"," ","5"," ","6"," ","7"," ","8">> >>,
      << <<"1"," ","A"," ","B","o","b">>, <<"1"," ","2"," ","3"," ","4"," ","5"," ","6"," ","7"," ","8"," ","9">> >>,
      << <<"3"," ","B","i","g"," ","A"," ","J","o","e">>, <<"1"," ","2"," ","3"," ","4"," ","5"," ","6"," ","7"," ","8">> >>,
      << <<" "," ","1"," ","+"," ","J","o","h","n"," ","D","o","e"," "," ">>, <<>>, <<" ","5","0"," "," ","1"," ","3"," ","0"," ","0"," ","1"," ">> >>,
      << <<"R","a","n","k"," ","N","a","m","e"," ","S","c","o","r","e">>, <<"7"," ","x","1"," ","4"," ","o"," ","A","l"," ","1","0"," ","1"," ","2"," ","3"," ","4"," ","5"," ","6"," ","7">> >>,
      << <<"2"," ","S","e","n","i","o","r","M","o","o">>, <<"5","0"," ","1"," ","3"," ","x"," ","0"," ","0"," ","1"," ","0"," ","0"," ","4">> >>,
      << <<"A">>, <<"5","0"," ","1"," ","3"," ","0"," ","0"," ","1">> >>,
      << <<"2"," ","-"," ","B","o","b">>, <<"5","0"," ","1"," ","3"," ","0"," ","0"," ","1">> >>,
      << <<"2"," ","S","e","n","i","o","r","M","o","o">>, <<"1","_","0","0","0"," ","-","1"," ","+","3"," ","0"," ","0"," ","1"," ","0"," ","0">> >>,
      << <<"3"," ","9"," ","A","l">>, <<"1"," ","2"," ","3"," ","4"," ","5"," ","6"," ","7"," ","8">> >>,
      << <<"3"," ","9"," ","A","l"," ","1"," ","2"," ","3"," ","4"," ","5"," ","6"," ","7"," ","8">> >>,
      << <<"4"," ","o"," ","A","l"," ","1","0"," ","1"," ","2"," ","3"," ","4"," ","5"," ","6"," ","7">>, <<"1",",","2","0","0"," ","5"," ","2"," ","1"," ","0"," ","3"," ","4"," ","7">> >>,
      << <<"4"," ","o"," ","A","l"," ","1","0"," ","1"," ","2"," ","3"," ","4"," ","5"," ","6"," ","7">>, <<"1",",","2","0","0"," ","5"," ","2"," ","1">> >>,
      << <<"1"," ","A"," ","B","o","b">>, <<"9"," ","8"," ","7"," ","6"," ","5"," ","4"," ","3"," ","2"," ","3"," ","o"," ","A","l">>, <<"1"," ","2"," ","3"," ","4"," ","5"," ","6"," ","7"," ","8">> >>,
      << <<"1"," ","A"," ","B","o","b">>, <<"9"," ","8"," ","7"," ","6"," ","5"," ","4"," ","3"," ","2"," ","3"," ","o"," ","A","l">>, <<"1"," ","2"," ","3"," ","4"," ","5"," ","6"," ","7"," ","8"," ","4"," ","+"," ","B","o">>,
         <<"5"," ","5"," ","5"," ","5"," ","5"," ","5"," ","5"," ","5">> >> }

ScoreInputs == SeqsUpTo(ScoreVocab, MaxLines) \cup GlyphBlocks \cup ScoreScenarios

InfoVocab ==
    { <<"S","U","L","L","E","S","S">>,
      <<"I","h","r","e","s","h","o","l","d","-","A","t","t","a","c",":"," ","a","n","d"," ","D","e","f","e","n","d">>,
      <<"?">>,
      <<"2","0"," ","J","a","n"," ","2","0","2","5">>,
      <<"5"," ","F","e","b">>,
      <<"C","r","a","c","k","e","d"," ","7"," ","M","a","r","."," ","2","0","2","5"," ","9",":","0","5",":","5","9">> }

OutcomeLines ==
    {OUTCOME_CORRECTIONS[k][1] : k \in 1..Len(OUTCOME_CORRECTIONS)}
    \cup { <<"V","I","C","T","O","R","Y">>, <<"D","E","F","E","A","T">>, <<"S","U","C","C","E","S","S","?">> }

MapLines ==
    {MAP_NAME_CORRECTIONS[k][1] : k \in 1..Len(MAP_NAME_CORRECTIONS)}
    \cup { <<"C","r","a","c","k","e","d"," ","-"," ","A","t","t","a","c","k"," ","a","n","d"," ","D","e","f","e","n","d">> }

KeyInputs == {<<o, m>> : o \in OutcomeLines, m \in MapLines}

DateTails ==
    { <<>>, << <<"2","3",":","5","9",":","5","9">> >>, << <<"2","4",":","0","0",":","0","0">> >>, << <<"1","2",":","6","0",":","0","0">> >>,
      << <<"1","2",":","3","0",":","6","0">> >>, << <<"1","2",":","3","0">> >>, << <<"1",":","2",":","3">> >>, << <<"a","b",":","c","d",":","e","f">> >>,
      << <<"+","7",":","0","5",":","0","9">>, <<"U","T","C">> >>, << <<"1","_","0",":","0","0",":","0","0">> >> }

DateLines ==
    {JoinSp(<<d, m, <<"2","0","2","5">>>> \o t) :
        d \in { <<"5">>, <<"2","0">> }, m \in { <<"J","a","n">>, <<"F","e","b",".">> }, t \in DateTails}

DateInputs == {<< <<"F","A","I","L","I","R","E">>, <<"C","r","a","c","k","e","d"," ","-"," ","A","t","t","a","c","k"," ","a","n","d"," ","D","e","f","e","n","d">>, d >> : d \in DateLines}

InfoScenarios ==
    { << <<" ","S","U","L","L","E","S","S"," ">>, <<>>, <<" ","?"," ">>, <<"I","h","r","e","s","h","o","l","d","-","A","t","t","a","c",":"," ","a","n","d"," ","D","e","f","e","n","d">>, <<"2","0"," ","J","a","n"," ","2","0","2","5">> >>,
      << <<"V","I","C","T","O","R","Y">>, <<"T","r","e","n","c","h"," ","i","n","e","s","-","A","t","t","a","c","k"," ","a","n","d"," ","D","e","f","e","n","d">>, <<"2","0"," ","-"," ","J","a","n"," ","-"," ","2","0","2","5">> >>,
      << <<"V","I","C","T","O","R","Y">>, <<"C","r","a","c","k","e","d","?">>, <<"S","h","a","t","t","e","d"," ","-"," ","A","t","t","a","c","k"," ","a","n","d"," ","D","e","f","e","n","d">>, <<"5"," ","F","e","b">> >>,
      << <<"V","I","C","T","O","R","Y">>, <<"J","a","n"," ","2","0","2","5"," ","C","r","a","c","k","e","d">> >>,
      << <<"U","n","k","n","o","w","n">>, <<"?">> >>,
      << <<"V","I","C","T","O","R","Y">>, <<"?">>, <<>>, <<"C","r","a","c","k","e","d">>, <<" ","?"," ">>, <<" "," ">>, <<"2","0"," ","J","a","n"," ","2","0","2","5">>, <<"?">> >>,
      << <<"V","I","C","T","O","R","Y">>, <<>>, <<"?">>, <<"?">>, <<"C","r","a","c","k","e","d"," ","7"," ","M","a","r","."," ","2","0","2","5"," ","9",":","0","5",":","5","9">>, <<"5"," ","F","e","b">> >> }

InfoInputs ==
    SeqsUpTo(InfoVocab, MaxLines) \cup KeyInputs \cup DateInputs \cup InfoScenarios

MedalLineVocab ==
    { <<"C","o","m","b","a","t"," ","B","r","o","n","z","e"," ","M","e","d","a","l">>, <<"C","o","m","b","a","t"," ","S","i","l","v","e","r"," ","M","e","d","a","l">>, <<"C","o","m","b","a","t"," ","G","o","l","d"," ","M","e","d","a","l">>,
      <<"C","a","p","t","u","r","e"," ","G","o","l","d"," ","M","e","d","a","l">>, <<"C","o","m","b","a","t"," ","G","o","l","d"," ","M","e","d","a","l"," ">>, <<" ","L","o","g","i","s","t","i","c","s"," ","S","i","l","v","e","r"," ","M","e","d","a","l">>,
      <<"C","o","m","b","a","t"," ","G","o","l","d">>, <<>> }

MedalFiles ==
    {NoFile} \cup {FileOf(Text(ls)) : ls \in SeqsUpTo(MedalLineVocab, MaxMedalLines)}

TeamFiles ==
    {NoFile} \cup {FileOf(Text(ls)) :
        ls \in { <<>>, << <<"G","T","I">> >>, << <<"H","A","A","V","K">> >>, << <<" ","G","T","I"," ">>, <<"H","A","A","V","K">> >>,
                 << <<"G","T","1">> >> }}

ScoreboardFiles ==
    {NoFile} \cup {FileOf(Text(ls)) :
        ls \in { <<>>,
                 << <<"1"," ","+"," ","J","o","h","n"," ","D","o","e">>, <<"1",",","2","0","0"," ","5"," ","2"," ","1"," ","0"," ","3"," ","4"," ","7">> >>,
                 << <<"1"," ","A"," ","B","o","b">>, <<"9"," ","8"," ","7"," ","6"," ","5"," ","4"," ","3"," ","2"," ","3"," ","o"," ","A","l">>, <<"1"," ","2"," ","3"," ","4"," ","5"," ","6"," ","7"," ","8">> >>,
                 << <<"5"," ","o","A"," ","Z","e","d"," ","1"," ","2"," ","3"," ","4"," ","5"," ","6"," ","7"," ","8">>, <<"R","a","n","k"," ","N","a","m","e"," ","S","c","o","r","e">> >> }}

GeneralFiles ==
    {NoFile} \cup {FileOf(Text(ls)) :
        ls \in { <<>>, << <<"S","U","L","L","E","S","S">>, <<"I","h","r","e","s","h","o","l","d","-","A","t","t","a","c",":"," ","a","n","d"," ","D","e","f","e","n","d">>, <<"2","0"," ","J","a","n"," ","2","0","2","5">> >> }}

DefaultFiles ==
    [scoreboard |-> FileOf(Text(<< <<"1"," ","+"," ","J","o","h","n"," ","D","o","e">>, <<"1",",","2","0","0"," ","5"," ","2"," ","1"," ","0"," ","3"," ","4"," ","7">>,
                                   <<"2"," ","S","e","n","i","o","r","M","o","o">>, <<"9","0","0"," ","4"," ","4"," ","1"," ","0"," ","2"," ","0"," ","1">> >>)),
     general    |-> FileOf(Text(<< <<"S","U","L","L","E","S","S">>, <<"I","h","r","e","s","h","o","l","d","-","A","t","t","a","c",":"," ","a","n","d"," ","D","e","f","e","n","d">>,
                                   <<"2","0"," ","J","a","n"," ","2","0","2","5">> >>)),
     medals     |-> NoFile,
     team       |-> FileOf(Text(<< <<"G","T","I">> >>))]

\* the files of one match: the defaults with one of them varied
MatchFiles ==
    {[DefaultFiles EXCEPT !.medals = f] : f \in MedalFiles}
    \cup {[DefaultFiles EXCEPT !.team = f] : f \in TeamFiles}
    \cup {[DefaultFiles EXCEPT !.scoreboard = f] : f \in ScoreboardFiles}
    \cup {[DefaultFiles EXCEPT !.general = f] : f \in GeneralFiles}

\* the team names given to write_csv: the keys of the table and some others
TeamNames ==
    {TEAM_NAME_CORRECTIONS[k][1] : k \in 1..Len(TEAM_NAME_CORRECTIONS)}
    \cup { <<"A","T","T","A","C","K">>, <<"G","T","1">>, <<"g","t","i">>, <<"U","n","k","n","o","w","n">> }

\* the player lists given to write_csv
WritePlayers ==
    { <<>>,
      << PlayerData(<<"1">>, <<"A","s","s","a","u","l","t">>, <<"J","o","h","n"," ","D","o","e">>, <<1200, 5, 2, 1, 0, 3, 4, 7>>) >>,
      << PlayerData(<<"1">>, <<"A","s","s","a","u","l","t">>, <<"J","o","h","n"," ","D","o","e">>, <<1200, 5, 2, 1, 0, 3, 4, 7>>),
         PlayerData(<<"2">>, <<"U","n","k","n","o","w","n">>, <<"S","e","n","i","o","r","M","o","o">>, <<900, 4, 4>>) >> }

\* the medal counts given to write_csv
WriteMedals ==
    { <<>>, [k \in 1..Len(MEDAL_TYPES) |-> <<MEDAL_TYPES[k], IF k = 3 THEN 1 ELSE 0>>] }

NoChecks == [k \in 1..12 |-> FALSE]

NoReturn == [raised |-> FALSE, val |-> <<>>, at |-> 0]

----------------------------------------------------------------------------
(* The state machine: one operation (target) applied to drawn inputs       *)

Idle(t, ls) ==
    /\ target = t
    /\ lines = ls
    /\ now = FirstYear
    /\ called = FALSE
    /\ ret = NoReturn
    /\ first = NoReturn
    /\ checks = NoChecks
    /\ files = DefaultFiles
    /\ stage = "parse"
    /\ csv = NoFile
    /\ AppsAtRest

InitScore ==
    \E t \in {"process_lines", "process_scoreboard"}, ls \in ScoreInputs : Idle(t, ls)

InitInfo ==
    \E t \in {"legacy_process_general_info", "process_general_info"},
       ls \in InfoInputs : Idle(t, ls)

InitKeys == \E ls \in InfoInputs : Idle("process_general_info", ls)

InitRobust ==
    \E t \in {"process_scoreboard", "process_general_info"},
       ls \in ScoreInputs \cup InfoInputs : Idle(t, ls)

InitImage ==
    /\ target = "match"
    /\ lines = <<>>
    /\ now = FirstYear
    /\ called = FALSE
    /\ ret = NoReturn
    /\ first = NoReturn
    /\ checks \in [1..12 -> BOOLEAN]
    /\ files = DefaultFiles
    /\ stage = "image"
    /\ csv = NoFile
    /\ AppsAtRest

InitFiles ==
    /\ target = "match"
    /\ lines = <<>>
    /\ now = FirstYear
    /\ called = FALSE
    /\ ret = NoReturn
    /\ first = NoReturn
    /\ checks = NoChecks
    /\ files \in MatchFiles
    /\ stage = "files"
    /\ csv = NoFile
    /\ AppsAtRest

InitWrite == \E t \in TeamNames : Idle("write_csv", <<t>>)

\* a call of a parser returns r in the year "now": the first return is remembered
Return(r) ==
    /\ called' = TRUE
    /\ ret' = [raised |-> r.raised, val |-> r.val, at |-> now]
    /\ first' = IF called THEN first
                ELSE [raised |-> r.raised, val |-> r.val, at |-> now]
    /\ UNCHANGED <<target, lines, now, checks, files, stage, csv>>
    /\ UNCHANGED apps

CallProcessLines ==
    /\ target = "process_lines"
    /\ Return([raised |-> FALSE, val |-> process_lines(lines)])

CallProcessScoreboard ==
    /\ target = "process_scoreboard"
    /\ Return(process_scoreboard(lines))

CallLegacyGeneralInfo ==
    /\ target = "legacy_process_general_info"
    /\ Return([raised |-> FALSE, val |-> legacy_process_general_info(lines, now)])

CallProcessGeneralInfo ==
    /\ target = "process_general_info"
    /\ Return(process_general_info(lines))

\* the wall clock passes into the next calendar year
Tick ==
    /\ now < FirstYear + MaxTicks
    /\ now' = now + 1
    /\ UNCHANGED <<target, lines, called, ret, first, checks, files, stage, csv>>
    /\ UNCHANGED apps

\* process_images_in_folder for the screenshot of the match: the pixel
\* checks are reduced to medals and written to the medals file
ExtractMedals ==
    /\ target = "match"
    /\ stage = "image"
    /\ LET highest_rank_medals == get_highest_rank_medals(checks, MEDAL_TYPES)
       IN  /\ ret' = [raised |-> FALSE, val |-> highest_rank_medals, at |-> now]
           /\ files' = [files EXCEPT
                           !.medals = FileOf(MedalsFileText(highest_rank_medals, 1))]
    /\ stage' = "files"
    /\ called' = TRUE
    /\ UNCHANGED <<target, lines, now, first, checks, csv>>
    /\ UNCHANGED apps

\* MatchProcessor.process_single_match on the files of the match
ProcessSingleMatch ==
    /\ target = "match"
    /\ stage = "files"
    /\ LET r == process_single_match(files)
       IN  /\ csv' = r.csv
           /\ stage' = IF r.raised THEN "raised" ELSE "done"
    /\ UNCHANGED <<target, lines, now, called, ret, first, checks, files>>
    /\ UNCHANGED apps

\* MatchProcessor.write_csv called with the team name lines[0]
CallWriteCsv ==
    /\ target = "write_csv"
    /\ stage = "parse"
    /\ \E players \in WritePlayers, medals \in WriteMedals :
           csv' = FileOf(write_csv(players, <<"V","I","C","T","O","R","Y">>, <<"C","r","a","c","k","e","d"," ","-"," ","A","t","t","a","c","k"," ","a","n","d"," ","D","e","f","e","n","d">>,
                                   <<"2","0"," ","J","a","n"," ","2","0","2","5"," ","0","0",":","0","0",":","0","0">>, lines[1], medals))
    /\ stage' = "done"
    /\ UNCHANGED <<target, lines, now, called, ret, first, checks, files>>
    /\ UNCHANGED apps

----------------------------------------------------------------------------
(* The application around the text pipeline                                *)

\* no text operation is under way
TextsAtRest ==
    /\ target = "none"
    /\ lines = <<>>
    /\ now = FirstYear
    /\ called = FALSE
    /\ ret = NoReturn
    /\ first = NoReturn
    /\ checks = NoChecks
    /\ files = DefaultFiles
    /\ stage = "rest"
    /\ csv = NoFile

\* import workers stand ready on a new database, each with its files
InitImport ==
    /\ TextsAtRest
    /\ PipelineAtRest
    /\ UpdateAtRest
    /\ db = NewDatabase
    /\ connections = NoConnections
    /\ workers \in {[t \in ThreadIds |-> ImportWorker(fs[t])] :
                        fs \in {f \in [ThreadIds -> UNION {WorkerFiles(t) : t \in ThreadIds}] :
                                    \A t \in ThreadIds : f[t] \in WorkerFiles(t)}}

\* the main window, no processing started
InitPipeline == TextsAtRest /\ AppsAtRest

\* an update checker of some running version, some release being the latest
InitUpdate ==
    /\ TextsAtRest
    /\ ImportAtRest
    /\ PipelineAtRest
    /\ \E v \in AppVersions, r \in ReleaseTags :
           /\ update_checker = [current_version |-> v, cache |-> NoCache, last |-> NoResult]
           /\ world = [release |-> r, time |-> 0]

\* the file the worker is at
CurrentFile(w) == Get(ImportDisk, w.files[w.i + 1])

\* the records of the file the worker is at
CurrentRecords(w) ==
    prepare_records(Tail(CurrentFile(w).text), CurrentFile(w).text[1],
                    ReadCsv(CurrentFile(w)).snapshot_name)

\* the record lacks a column of the first record: record[col] raises KeyError
LacksColumn(records, k) ==
    \E c \in 1..Len(records[1]) : ~HasKey(records[k], records[1][c][1])

\* the matches table lacks a column of the first record: the INSERT raises
\* sqlite3.OperationalError
TableLacksColumn(records, columns) ==
    \E c \in 1..Len(records[1]) : records[1][c][1] \notin columns

\* the row the INSERT of record k adds, tagged with the call that added it
InsertedRow(t, w, records, k) ==
    [call   |-> <<t, w.i + 1>>,
     record |-> [c \in 1..Len(records[1]) |->
                    <<records[1][c][1], Get(records[k], records[1][c][1])>>]]

\* ImportWorker.process takes its next file and import_csv_worker reads it,
\* up to taking the connection of the thread
ImportOpen ==
    \E t \in ThreadIds :
        LET w == workers[t]
        IN  /\ w.pc = "next"
            /\ w.i < Len(w.files)
            /\ LET r == ReadCsv(CurrentFile(w))
               IN  IF r.result = ""
                   THEN /\ workers' = [workers EXCEPT ![t] =
                                          [w EXCEPT !.pc = "select", !.k = 0, !.result = ""]]
                        /\ connections' = [connections EXCEPT ![t].open = TRUE]
                   ELSE /\ workers' = [workers EXCEPT ![t] =
                                          [w EXCEPT !.pc = "emit", !.result = r.result]]
                        /\ UNCHANGED connections
            /\ UNCHANGED <<db, processing_thread, update_checker, world, texts>>

\* the duplicate check: SELECT COUNT(*) ... WHERE snapshot_name = ?
ImportSelect ==
    \E t \in ThreadIds :
        LET w == workers[t]
        IN  /\ w.pc = "select"
            /\ LET count == CountSnapshot(db.matches \o connections[t].pending,
                                          ReadCsv(CurrentFile(w)).snapshot_name)
               IN  workers' = [workers EXCEPT ![t] =
                                  IF count > 0
                                  THEN [w EXCEPT !.pc = "exit", !.result = "False"]
                                  ELSE [w EXCEPT !.pc = "ensure"]]
            /\ UNCHANGED <<db, connections, processing_thread, update_checker, world, texts>>

\* _ensure_columns_exist: the missing columns are added and the nested
\* with block commits
ImportEnsureColumns ==
    \E t \in ThreadIds :
        LET w       == workers[t]
            missing == MissingColumns(CurrentFile(w).text[1], db.columns)
        IN  /\ w.pc = "ensure"
            /\ missing = {} \/ db.lock \in {0, t}
            /\ db' = [db EXCEPT !.columns = @ \cup missing,
                                !.matches = ExitConnection(@, connections[t].pending),
                                !.lock = IF @ = t THEN 0 ELSE @]
            /\ connections' = [connections EXCEPT ![t].pending = <<>>]
            /\ workers' = [workers EXCEPT ![t].pc = "insert"]
            /\ UNCHANGED <<processing_thread, update_checker, world, texts>>

\* _ensure_columns_exist while another connection holds the write lock: an
\* ALTER TABLE that times out is reported and passed over
ImportEnsureTimeout ==
    \E t \in ThreadIds :
        LET w       == workers[t]
            missing == MissingColumns(CurrentFile(w).text[1], db.columns)
        IN  /\ w.pc = "ensure"
            /\ missing # {}
            /\ db.lock \notin {0, t}
            /\ \E added \in (SUBSET missing) \ {missing} :
                   db' = [db EXCEPT !.columns = @ \cup added]
            /\ workers' = [workers EXCEPT ![t].pc = "insert"]
            /\ UNCHANGED <<connections, processing_thread, update_checker, world, texts>>

\* one pass of "for record in records": the INSERT of the next record, which
\* takes the write lock, or the exception that ends the loop; after the last
\* record the call returns True
ImportInsert ==
    \E t \in ThreadIds :
        LET w       == workers[t]
            records == CurrentRecords(w)
        IN  /\ w.pc = "insert"
            /\ IF LacksColumn(records, w.k + 1)
               THEN /\ workers' = [workers EXCEPT ![t] =
                                      [w EXCEPT !.pc = "exit", !.result = "KeyError"]]
                    /\ UNCHANGED <<db, connections>>
               ELSE IF TableLacksColumn(records, db.columns)
               THEN /\ workers' = [workers EXCEPT ![t] =
                                      [w EXCEPT !.pc = "exit", !.result = "OperationalError"]]
                    /\ UNCHANGED <<db, connections>>
               ELSE /\ db.lock \in {0, t}
                    /\ db' = [db EXCEPT !.lock = t]
                    /\ connections' = [connections EXCEPT ![t].pending =
                                          Append(@, InsertedRow(t, w, records, w.k + 1))]
                    /\ workers' = [workers EXCEPT ![t] =
                                      IF w.k + 1 = Len(records)
                                      THEN [w EXCEPT !.k = @ + 1, !.pc = "exit", !.result = "True"]
                                      ELSE [w EXCEPT !.k = @ + 1]]
            /\ UNCHANGED <<processing_thread, update_checker, world, texts>>

\* the INSERT waits for the write lock of another connection until the
\* timeout of the connection and raises sqlite3.OperationalError
ImportInsertTimeout ==
    \E t \in ThreadIds :
        LET w       == workers[t]
            records == CurrentRecords(w)
        IN  /\ w.pc = "insert"
            /\ db.lock \notin {0, t}
            /\ ~LacksColumn(records, w.k + 1)
            /\ ~TableLacksColumn(records, db.columns)
            /\ workers' = [workers EXCEPT ![t] =
                              [w EXCEPT !.pc = "exit", !.result = "OperationalError"]]
            /\ UNCHANGED <<db, connections, processing_thread, update_checker, world, texts>>

\* the with block of import_csv_worker is left, by return or by exception:
\* ConnectionPool.connection commits
ImportExit ==
    \E t \in ThreadIds :
        LET w == workers[t]
        IN  /\ w.pc = "exit"
            /\ db' = [db EXCEPT !.matches = ExitConnection(@, connections[t].pending),
                                !.lock = IF @ = t THEN 0 ELSE @]
            /\ connections' = [connections EXCEPT ![t].pending = <<>>]
            /\ workers' = [workers EXCEPT ![t].pc = "emit"]
            /\ UNCHANGED <<processing_thread, update_checker, world, texts>>

\* ImportWorker.process reports the file: file_status.emit
ImportEmit ==
    \E t \in ThreadIds :
        LET w == workers[t]
        IN  /\ w.pc = "emit"
            /\ workers' = [workers EXCEPT ![t] =
                   [w EXCEPT !.pc = "next",
                             !.i = @ + 1,
                             !.file_status =
                                 Append(@, [file    |-> w.files[w.i + 1],
                                            success |-> w.result = "True",
                                            message |-> IF w.result = "True"
                                                        THEN "Successfully imported"
                                                        ELSE IF w.result = "False"
                                                        THEN "Skipped duplicate file"
                                                        ELSE "Error",
                                            result  |-> w.result])]]
            /\ UNCHANGED <<db, connections, processing_thread, update_checker, world, texts>>

\* ImportWorker.process after its last file: finished.emit
ImportFinish ==
    \E t \in ThreadIds :
        LET w == workers[t]
        IN  /\ w.pc = "next"
            /\ w.i = Len(w.files)
            /\ workers' = [workers EXCEPT ![t].pc = "finished"]
            /\ UNCHANGED <<db, connections, processing_thread, update_checker, world, texts>>

\* DeltaForceLeaderboard.process_screenshots with a valid screenshots path:
\* a new ProcessingThread is started (the button is disabled until
\* processing_finished)
ProcessScreenshots ==
    /\ processing_thread.pc = "idle"
    /\ processing_thread.runs < MaxRuns
    /\ processing_thread' = [NoThread EXCEPT !.pc = "loop",
                                             !.runs = processing_thread.runs + 1]
    /\ UNCHANGED <<db, connections, workers, update_checker, world, texts>>

\* top of the loop of ProcessingThread.run: progress_update, then Popen,
\* which starts the script or raises
StartScript ==
    /\ processing_thread.pc = "loop"
    /\ processing_thread.i < Len(PipelineScripts)
    /\ \E popen \in {"started", "raised"} :
           processing_thread' =
               [processing_thread EXCEPT
                   !.progress_update =
                       Append(@, Percent(2 * processing_thread.i, Len(PipelineScripts))),
                   !.lines = 0,
                   !.started = IF popen = "started"
                               THEN Append(@, PipelineScripts[processing_thread.i + 1])
                               ELSE @,
                   !.process_complete = IF popen = "started" THEN @ ELSE Append(@, FALSE),
                   !.pc = IF popen = "started" THEN "poll" ELSE "returned"]
    /\ UNCHANGED <<db, connections, workers, update_checker, world, texts>>

\* the script is still running and has written a line
ReadStdout ==
    /\ processing_thread.pc = "poll"
    /\ processing_thread.lines < MaxStdoutLines
    /\ processing_thread' =
           [processing_thread EXCEPT
               !.progress_update =
                   Append(@, Percent(2 * processing_thread.i + 1, Len(PipelineScripts))),
               !.lines = @ + 1]
    /\ UNCHANGED <<db, connections, workers, update_checker, world, texts>>

\* reading from the script raises: process_complete(False, ...) and return
ReadRaises ==
    /\ processing_thread.pc = "poll"
    /\ processing_thread' =
           [processing_thread EXCEPT !.process_complete = Append(@, FALSE),
                                     !.pc = "returned"]
    /\ UNCHANGED <<db, connections, workers, update_checker, world, texts>>

\* the script has exited: a return code other than 0 ends the run with
\* process_complete(False, ...), 0 goes on to the next script
ScriptExits ==
    /\ processing_thread.pc = "poll"
    /\ \E returncode \in ReturnCodes :
           processing_thread' =
               IF ScriptFailed(returncode)
               THEN [processing_thread EXCEPT !.codes = Append(@, returncode),
                                              !.process_complete = Append(@, FALSE),
                                              !.pc = "returned"]
               ELSE [processing_thread EXCEPT !.codes = Append(@, returncode),
                                              !.i = @ + 1,
                                              !.pc = "loop"]
    /\ UNCHANGED <<db, connections, workers, update_checker, world, texts>>

\* after the last script: progress_update(100, ...) and
\* process_complete(True, ...)
AllScriptsRun ==
    /\ processing_thread.pc = "loop"
    /\ processing_thread.i = Len(PipelineScripts)
    /\ processing_thread' =
           [processing_thread EXCEPT !.progress_update = Append(@, 100),
                                     !.process_complete = Append(@, TRUE),
                                     !.pc = "returned"]
    /\ UNCHANGED <<db, connections, workers, update_checker, world, texts>>

\* DeltaForceLeaderboard.processing_finished: the button is enabled again
ProcessingFinished ==
    /\ processing_thread.pc = "returned"
    /\ processing_thread' = [processing_thread EXCEPT !.pc = "idle"]
    /\ UNCHANGED <<db, connections, workers, update_checker, world, texts>>

\* UpdateChecker.check_for_updates, the GitHub API answering with the latest
\* release or failing
CheckForUpdates ==
    /\ \E force_check \in BOOLEAN, ok \in BOOLEAN, writable \in BOOLEAN :
           LET r == CHOOSE x \in {check_for_updates(force_check,
                                                    update_checker.current_version,
                                                    update_checker.cache, world.time,
                                                    [ok |-> ok, tag_name |-> world.release],
                                                    writable)} : TRUE
           IN  update_checker' =
                   [update_checker EXCEPT
                       !.cache = r.cache,
                       !.last  = [result  |-> r.result, from |-> r.from,
                                  running |-> update_checker.current_version]]
    /\ UNCHANGED <<db, connections, workers, processing_thread, world, texts>>

\* another version of the application is installed and started: a new
\* UpdateChecker takes APP_VERSION, the cache file stays
VersionChange ==
    /\ \E v \in AppVersions \ {update_checker.current_version} :
           update_checker' = [update_checker EXCEPT !.current_version = v]
    /\ UNCHANGED <<db, connections, workers, processing_thread, world, texts>>

\* another release becomes the latest on GitHub
PublishRelease ==
    /\ \E r \in ReleaseTags \ {world.release} : world' = [world EXCEPT !.release = r]
    /\ UNCHANGED <<db, connections, workers, processing_thread, update_checker, texts>>

\* time passes: half the lifetime of the cache, or just over all of it
ClockTick ==
    /\ \E d \in {CacheTtl \div 2, CacheTtl + 1} :
           /\ world.time < MaxHours * CacheTtl
           /\ world' = [world EXCEPT !.time = @ + d]
    /\ UNCHANGED <<db, connections, workers, processing_thread, update_checker, texts>>

NextScore == CallProcessLines \/ CallProcessScoreboard

NextInfo == CallLegacyGeneralInfo \/ CallProcessGeneralInfo \/ Tick

NextParsers ==
    \/ CallProcessLines
    \/ CallProcessScoreboard
    \/ CallLegacyGeneralInfo
    \/ CallProcessGeneralInfo
    \/ Tick

NextRobust == CallProcessScoreboard \/ CallProcessGeneralInfo

NextMedals == ExtractMedals \/ ProcessSingleMatch

NextTables == CallProcessGeneralInfo \/ CallWriteCsv

NextImport ==
    \/ ImportOpen
    \/ ImportSelect
    \/ ImportEnsureColumns
    \/ ImportEnsureTimeout
    \/ ImportInsert
    \/ ImportInsertTimeout
    \/ ImportExit
    \/ ImportEmit
    \/ ImportFinish

\* the steps of ProcessingThread.run
RunSteps == StartScript \/ ReadStdout \/ ReadRaises \/ ScriptExits \/ AllScriptsRun

NextPipeline == ProcessScreenshots \/ RunSteps \/ ProcessingFinished

NextUpdate == CheckForUpdates \/ VersionChange \/ PublishRelease \/ ClockTick

Init ==
    \/ InitScore
    \/ InitInfo
    \/ InitImage
    \/ InitFiles
    \/ InitWrite
    \/ InitImport
    \/ InitPipeline
    \/ InitUpdate

Next ==
    \/ NextParsers
    \/ NextMedals
    \/ CallWriteCsv
    \/ NextImport
    \/ NextPipeline
    \/ NextUpdate

\* the scoreboard parsers on scoreboard text
SpecScore == InitScore /\ [][NextScore]_vars

\* the general-information parsers on header text, the clock running
SpecInfo == InitInfo /\ [][NextInfo]_vars

\* the four parsers, each on its own kind of text, the clock running
SpecParsers == (InitScore \/ InitInfo) /\ [][NextParsers]_vars

\* the two parsers of process_match_data.py on any of the texts
SpecRobust == InitRobust /\ [][NextRobust]_vars

\* the medal pipeline: pixel checks, medals file, CSV rows
SpecMedals == (InitImage \/ InitFiles) /\ [][NextMedals]_vars

\* the correction tables: header text and the team names of a match
SpecTables == (InitKeys \/ InitWrite) /\ [][NextTables]_vars

\* import workers on one database, each thread with its own connection
SpecImport == InitImport /\ [][NextImport]_vars

\* the processing thread: a started thread keeps running, and a script that
\* was started exits or fails to be read
SpecPipeline ==
    /\ InitPipeline
    /\ [][NextPipeline]_vars
    /\ WF_vars(StartScript)
    /\ WF_vars(ScriptExits \/ ReadRaises)
    /\ WF_vars(AllScriptsRun)

\* the update checker, versions, releases and the clock changing
SpecUpdate == InitUpdate /\ [][NextUpdate]_vars

Spec == Init /\ [][Next]_vars

----------------------------------------------------------------------------
(* Properties of the parsers and of the medal pipeline                     *)

RECURSIVE SumSeq(_)
SumSeq(s) == IF s = <<>> THEN 0 ELSE Head(s) + SumSeq(Tail(s))

\* how many tokens of a line are made of digits only
PureDigitCount(line) ==
    Cardinality({k \in 1..Len(Split(line)) : IsDigit(Split(line)[k])})

\* how many tokens of a line read as an integer once commas are removed
NumericCount(line) ==
    Cardinality({k \in 1..Len(Split(line)) : IsInt(NoCommas(Split(line)[k]))})

\* the index of the first name line (a line with a letter) after line k,
\* or one past the last line
NextNameLine(ls, k) ==
    LET later == {j \in (k + 1)..Len(ls) : HasAlpha(ls[j])}
    IN  IF later = {} THEN Len(ls) + 1
        ELSE CHOOSE j \in later : \A h \in later : j <= h

\* the digit-only tokens on the lines between name line k and the next name line
PureDigitsBetween(ls, k) ==
    SumSeq([j \in 1..(NextNameLine(ls, k) - k - 1) |-> PureDigitCount(ls[k + j])])

\* the numeric tokens on the lines between name line k and the next name line
NumericBetween(ls, k) ==
    SumSeq([j \in 1..(NextNameLine(ls, k) - k - 1) |-> NumericCount(ls[k + j])])

\* word is one of the tokens of line
TokenOf(word, line) == \E k \in 1..Len(Split(line)) : Split(line)[k] = word

\* the stats are 8 consecutive integer tokens of the line, after its first token
StatsOnSameLine(line, stats) ==
    LET t == Split(line)
    IN  \E j \in 1..(Len(t) - 8) :
            \A n \in 1..8 : /\ IsInt(NoCommas(t[j + n]))
                            /\ IntOf(NoCommas(t[j + n])) = stats[n]

\* the stats are the first 8 tokens of the line, all of them integers
FirstEightAre(line, stats) ==
    LET t == Split(line)
    IN  /\ Len(t) >= 8
        /\ \A n \in 1..8 : /\ IsInt(NoCommas(t[n]))
                           /\ IntOf(NoCommas(t[n])) = stats[n]

\* the digit-only tokens of the lines k.. of ls, as integers, in input order
RECURSIVE DigitsOfLines(_, _)
DigitsOfLines(ls, k) ==
    IF k > Len(ls) THEN <<>>
    ELSE DigitWords(Split(ls[k])) \o DigitsOfLines(ls, k + 1)

\* the lines after the first hold no letter and 6 digit-only tokens in total
SixDigitsFollow(ls) ==
    /\ Len(ls) >= 2
    /\ \A k \in 2..Len(ls) : ~HasAlpha(ls[k])
    /\ SumSeq([j \in 1..(Len(ls) - 1) |-> PureDigitCount(ls[j + 1])]) = 6

\* the class named by a glyph of the 6-stat generation
GlyphClass(g) ==
    CASE g = <<"+">> -> <<"S","u","p","p","o","r","t">>
      [] g = <<"o">> -> <<"R","e","c","o","n">>
      [] g = <<"A">> -> <<"A","s","s","a","u","l","t">>
      [] g = <<".">> -> <<"E","n","g","i","n","e","e","r">>

Glyphs == { <<"+">>, <<"o">>, <<"A">>, <<".">> }

\* a name without the "- " artifact in front of it
WithoutLeadingDash(name) ==
    IF Len(name) >= 2 /\ name[1] = "-" /\ name[2] = " "
    THEN SubSeq(name, 3, Len(name)) ELSE name

\* ---------------------------------------------------------------- C1

\* C1: every row returned by process_lines carries exactly 6 stat integers
\* and every PlayerData returned by process_scoreboard carries exactly 8;
\* no record with another number of stats leaves either parser.
C1_ArityInvariant ==
    (called /\ ~ret.raised) =>
        /\ (target = "process_lines") =>
               \A k \in 1..Len(ret.val) :
                   /\ Len(ret.val[k]) = 3 + 6
                   /\ \A n \in 4..9 : ret.val[k][n] \in Int
        /\ (target = "process_scoreboard") =>
               \A k \in 1..Len(ret.val) :
                   /\ Len(ret.val[k].stats) = 8
                   /\ \A n \in 1..8 : ret.val[k].stats[n] \in Int

\* process_scoreboard returned the two players of a two-player layout
C1_Witness ==
    /\ called
    /\ target = "process_scoreboard"
    /\ ~ret.raised
    /\ Len(ret.val) = 2

\* ---------------------------------------------------------------- C2

C3_PureFunctionOfLines ==
    called => (ret.raised = first.raised /\ ret.val = first.val)

\* C3 amended: process_lines, process_scoreboard and
\* MatchProcessor.process_general_info are pure functions of their lines.
\* process_general_info of clean_up_ocr_output.py is pure in its outcome and
\* map name, and in its date unless the date has exactly two tokens (day and
\* month): then the year is the wall clock's current year.
C3_PureButForTheClockYear ==
    called =>
        /\ (target # "legacy_process_general_info") =>
               (ret.raised = first.raised /\ ret.val = first.val)
        /\ (target = "legacy_process_general_info") =>
               /\ ret.val[1] = first.val[1]
               /\ ret.val[2] = first.val[2]
               /\ (Len(lines) < 3 \/ Len(Split(LegacyDateStr(lines))) # 2) =>
                      ret.val[3] = first.val[3]

\* the legacy parser ran in two different years on a date of day and month
C3_Witness ==
    /\ called
    /\ target = "legacy_process_general_info"
    /\ first.at < ret.at
    /\ Len(lines) >= 3
    /\ Len(Split(LegacyDateStr(lines))) = 2
    /\ ret.val[3] # first.val[3]

\* ---------------------------------------------------------------- C4

\* C4 as stated: for every key k of OUTCOME_CORRECTIONS, MAP_NAME_CORRECTIONS
\* and TEAM_NAME_CORRECTIONS, giving exactly k as the outcome line or the map
\* line of MatchProcessor.process_general_info, or as the team name of
\* write_csv, yields exactly the table's value for k.
C4_TableValueForEveryKey ==
    /\ (target = "process_general_info" /\ called /\ ~ret.raised /\ Len(lines) >= 2) =>
           /\ HasKey(OUTCOME_CORRECTIONS, lines[1]) =>
                  ret.val[1] = Get(OUTCOME_CORRECTIONS, lines[1])
           /\ HasKey(MAP_NAME_CORRECTIONS, lines[2]) =>
                  ret.val[2] = Get(MAP_NAME_CORRECTIONS, lines[2])
    /\ (/\ target = "write_csv" /\ stage = "done" /\ csv.exists
        /\ HasKey(TEAM_NAME_CORRECTIONS, lines[1])) =>
           \A r \in 1..Len(csv.text.rows) :
               csv.text.rows[r][4] = Get(TEAM_NAME_CORRECTIONS, lines[1])

\* C4 amended: a key of MAP_NAME_CORRECTIONS or TEAM_NAME_CORRECTIONS yields
\* exactly the table's value; a key of OUTCOME_CORRECTIONS yields the table's
\* value, except that the value SUCCESS is reported as VICTORY.
C4_TableValueSuccessAsVictory ==
    /\ (target = "process_general_info" /\ called /\ ~ret.raised /\ Len(lines) >= 2) =>
           /\ HasKey(OUTCOME_CORRECTIONS, lines[1]) =>
                  ret.val[1] = (IF Get(OUTCOME_CORRECTIONS, lines[1]) = <<"S","U","C","C","E","S","S">>
                                THEN <<"V","I","C","T","O","R","Y">>
                                ELSE Get(OUTCOME_CORRECTIONS, lines[1]))
           /\ HasKey(MAP_NAME_CORRECTIONS, lines[2]) =>
                  ret.val[2] = Get(MAP_NAME_CORRECTIONS, lines[2])
    /\ (/\ target = "write_csv" /\ stage = "done" /\ csv.exists
        /\ HasKey(TEAM_NAME_CORRECTIONS, lines[1])) =>
           \A r \in 1..Len(csv.text.rows) :
               csv.text.rows[r][4] = Get(TEAM_NAME_CORRECTIONS, lines[1])

\* the outcome key SULLESS and a map key were given, and VICTORY came back
C4_Witness ==
    /\ target = "process_general_info"
    /\ called
    /\ lines = << <<"S","U","L","L","E","S","S">>, <<"T","r","e","n","c","h"," ","i","n","e","s","-","A","t","t","a","c","k"," ","a","n","d"," ","D","e","f","e","n","d">> >>
    /\ ret.val[1] = <<"V","I","C","T","O","R","Y">>
    /\ ret.val[2] = <<"T","r","e","n","c","h"," ","L","i","n","e","s"," ","-"," ","A","t","t","a","c","k"," ","a","n","d"," ","D","e","f","e","n","d">>

\* ---------------------------------------------------------------- C5

\* the 0-based category of a medal name, by its place in MEDAL_TYPES
CategoryOf(medal) ==
    ((CHOOSE k \in 1..Len(MEDAL_TYPES) : MEDAL_TYPES[k] = medal) - 1) \div 3

\* C5: for any 12 pixel-check results, get_highest_rank_medals reports for
\* each category the highest tier whose check passed, at most one medal per
\* category, at most 4 medals in all, in the order Combat, Capture,
\* Logistics, Intelligence, and nothing for a category with no passed check.
C5_HighestTierPerCategory ==
    (target = "match" /\ called) =>
        LET m == ret.val
        IN  /\ Len(m) <= 4
            /\ \A k \in 1..Len(m) : \E n \in 1..12 : m[k] = MEDAL_TYPES[n]
            /\ \A a, b \in 1..Len(m) : (a < b) => (CategoryOf(m[a]) < CategoryOf(m[b]))
            /\ \A i \in 0..3 :
                   LET passed == {j \in 0..2 : checks[3 * i + j + 1]}
                       mine   == {k \in 1..Len(m) : CategoryOf(m[k]) = i}
                   IN  IF passed = {} THEN mine = {}
                       ELSE /\ Cardinality(mine) = 1
                            /\ \A k \in mine :
                                   \A j \in passed :
                                       (\A h \in passed : h <= j)
                                       => (m[k] = MEDAL_TYPES[3 * i + j + 1])

\* bronze, silver and gold of Combat all passed, and only the gold is reported
C5_Witness ==
    /\ target = "match"
    /\ called
    /\ checks[1] /\ checks[2] /\ checks[3]
    /\ Len(ret.val) >= 1
    /\ ret.val[1] = <<"C","o","m","b","a","t"," ","G","o","l","d"," ","M","e","d","a","l">>

\* ---------------------------------------------------------------- C6

\* the lines of the medals file of the match, as written
MedalsFileLines ==
    IF files.medals.exists THEN SplitOn(files.medals.text, "\n") ELSE <<>>

\* some line of ls is exactly "<category> <tier> Medal"
HasMedalLine(ls, category, tier) ==
    \E k \in 1..Len(ls) : ls[k] = category \o <<" ">> \o tier \o <<" ","M","e","d","a","l">>

\* some line of ls, its surrounding whitespace stripped, is
\* "<category> <tier> Medal"
HasStrippedMedalLine(ls, category, tier) ==
    \E k \in 1..Len(ls) : Strip(ls[k]) = category \o <<" ">> \o tier \o <<" ","M","e","d","a","l">>

\* C6 as stated: the medal value written for a category is "None" when the
\* medals file is missing, empty, or has no line equal to
\* "<Category> <Tier> Medal"; otherwise it is the highest tier (Gold over
\* Silver over Bronze) with at least one such line.
C6_MedalValueFromEqualLines ==
    (target = "match" /\ stage = "done" /\ csv.exists) =>
        LET ls == MedalsFileLines
            expected ==
                [c \in 1..4 |->
                    IF HasMedalLine(ls, Categories[c], <<"G","o","l","d">>) THEN <<"G","o","l","d">>
                    ELSE IF HasMedalLine(ls, Categories[c], <<"S","i","l","v","e","r">>) THEN <<"S","i","l","v","e","r">>
                    ELSE IF HasMedalLine(ls, Categories[c], <<"B","r","o","n","z","e">>) THEN <<"B","r","o","n","z","e">>
                    ELSE <<"N","o","n","e">>]
        IN  \A r \in 1..Len(csv.text.rows) :
                SubSeq(csv.text.rows[r], 16, 19) = expected

\* C6 amended: a line counts when it equals "<Category> <Tier> Medal" after
\* its surrounding whitespace is stripped; the value is "None" when the file
\* is missing, empty or has no such line, else the highest tier with one.
C6_MedalValueFromStrippedLines ==
    (target = "match" /\ stage = "done" /\ csv.exists) =>
        LET ls == MedalsFileLines
            expected ==
                [c \in 1..4 |->
                    IF HasStrippedMedalLine(ls, Categories[c], <<"G","o","l","d">>) THEN <<"G","o","l","d">>
                    ELSE IF HasStrippedMedalLine(ls, Categories[c], <<"S","i","l","v","e","r">>)
                         THEN <<"S","i","l","v","e","r">>
                    ELSE IF HasStrippedMedalLine(ls, Categories[c], <<"B","r","o","n","z","e">>)
                         THEN <<"B","r","o","n","z","e">>
                    ELSE <<"N","o","n","e">>]
        IN  \A r \in 1..Len(csv.text.rows) :
                SubSeq(csv.text.rows[r], 16, 19) = expected

\* the medals file holds a bronze and a gold Combat line; Gold is written
C6_Witness ==
    /\ target = "match"
    /\ stage = "done"
    /\ csv.exists
    /\ files.medals.exists
    /\ HasMedalLine(MedalsFileLines, <<"C","o","m","b","a","t">>, <<"B","r","o","n","z","e">>)
    /\ HasMedalLine(MedalsFileLines, <<"C","o","m","b","a","t">>, <<"G","o","l","d">>)
    /\ Len(csv.text.rows) >= 1
    /\ csv.text.rows[1][16] = <<"G","o","l","d">>
    /\ csv.text.rows[1][17] = <<"N","o","n","e">>

\* ---------------------------------------------------------------- C7

\* C7 as stated: process_lines, given a line of a rank, a glyph of
\* {+, o, A, .} and at least one name token, followed by digit lines of 6
\* digit tokens in total, returns exactly one row: the rank, the class of
\* the glyph, the name tokens joined by single spaces, the six numbers in
\* input order.
C7_GlyphRow ==
    (/\ target = "process_lines" /\ called
     /\ Len(lines) >= 2
     /\ Len(Split(lines[1])) >= 3
     /\ IsDigit(Split(lines[1])[1])
     /\ Split(lines[1])[2] \in Glyphs
     /\ SixDigitsFollow(lines)) =>
        LET w == Split(lines[1])
        IN  ret.val = << <<w[1], GlyphClass(w[2]), JoinSp(SubSeq(w, 3, Len(w)))>>
                         \o DigitsOfLines(lines, 2) >>

\* C7 amended: the same, provided the name line holds a letter (a line
\* without one is read as a digit line), and with a leading "- " of the
\* joined name removed.
C7_GlyphRowWithALetter ==
    (/\ target = "process_lines" /\ called
     /\ Len(lines) >= 2
     /\ Len(Split(lines[1])) >= 3
     /\ IsDigit(Split(lines[1])[1])
     /\ Split(lines[1])[2] \in Glyphs
     /\ HasAlpha(lines[1])
     /\ SixDigitsFollow(lines)) =>
        LET w == Split(lines[1])
        IN  ret.val = << <<w[1], GlyphClass(w[2]),
                           WithoutLeadingDash(JoinSp(SubSeq(w, 3, Len(w))))>>
                         \o DigitsOfLines(lines, 2) >>

\* a two-token name after the glyph A, its six numbers one per line
C7_Witness ==
    /\ target = "process_lines"
    /\ called
    /\ lines = << <<"4"," ","A"," ","B","o"," ","L","i">>, <<"1","0","0">>, <<"5">>, <<"2">>, <<"1">>, <<"0">>, <<"3">> >>
    /\ ret.val = << << <<"4">>, <<"A","s","s","a","u","l","t">>, <<"B","o"," ","L","i">>, 100, 5, 2, 1, 0, 3 >> >>

\* ---------------------------------------------------------------- C8

\* C8: a line with no recognised glyph after the rank gives class Engineer
\* and a name made of all the tokens after the rank, none of them lost, in
\* process_lines and in every layout of process_scoreboard: the name line
\* followed by a line of 8 stats, and the single line of rank, name tokens
\* and 8 stats.  (For process_lines a leading "- " may be removed.)
C8_NoGlyphKeepsEveryNameToken ==
    (called /\ Len(lines) >= 1 /\ Len(Split(lines[1])) >= 2) =>
        LET w == Split(lines[1])
        IN  /\ (/\ target = "process_lines"
                /\ IsDigit(w[1]) /\ HasAlpha(lines[1])
                /\ ~HasKey(class_map, w[2])
                /\ SixDigitsFollow(lines)) =>
                   ret.val = << <<w[1], <<"E","n","g","i","n","e","e","r">>,
                                  WithoutLeadingDash(JoinSp(SubSeq(w, 2, Len(w))))>>
                                \o DigitsOfLines(lines, 2) >>
            /\ (/\ target = "process_scoreboard"
                /\ Len(lines) = 2
                /\ IsDigit(w[1])
                /\ ~HasKey(CLASS_MAP, w[2])
                /\ Len(Split(lines[2])) = 8
                /\ NumericCount(lines[2]) = 8) =>
                   /\ ~ret.raised
                   /\ Len(ret.val) = 1
                   /\ ret.val[1].prefix = w[1]
                   /\ ret.val[1].player_class = <<"E","n","g","i","n","e","e","r">>
                   /\ ret.val[1].name = JoinSp(SubSeq(w, 2, Len(w)))
                   /\ FirstEightAre(lines[2], ret.val[1].stats)
            /\ (/\ target = "process_scoreboard"
                /\ Len(lines) = 1
                /\ Len(w) >= 10
                /\ IsDigit(w[1])
                /\ ~HasKey(CLASS_MAP, w[2])
                /\ \A k \in 2..(Len(w) - 8) : ~IsInt(NoCommas(w[k]))
                /\ \A k \in (Len(w) - 7)..Len(w) : IsInt(NoCommas(w[k]))) =>
                   /\ ~ret.raised
                   /\ Len(ret.val) = 1
                   /\ ret.val[1].prefix = w[1]
                   /\ ret.val[1].player_class = <<"E","n","g","i","n","e","e","r">>
                   /\ ret.val[1].name = JoinSp(SubSeq(w, 2, Len(w) - 8))
                   /\ StatsOnSameLine(lines[1], ret.val[1].stats)

\* ---------------------------------------------------------------- C9

\* a time of three ":"-separated integers, 0 <= H < 24, 0 <= M < 60, 0 <= S < 60
ValidHMS(t) ==
    LET f == SplitOn(t, ":")
    IN  /\ Len(f) = 3
        /\ \A k \in 1..3 : IsInt(f[k])
        /\ IntOf(f[1]) \in 0..23
        /\ IntOf(f[2]) \in 0..59
        /\ IntOf(f[3]) \in 0..59

\* a one-digit day padded to two digits
PadDay(day) == IF Len(day) = 1 THEN <<"0">> \o day ELSE day

\* a map line that is taken as it is: not blank, no "?", no month token
PlainMapLine(line) ==
    /\ Strip(line) # <<>>
    /\ ~HasChar(line, "?")
    /\ \A k \in 1..Len(Split(line)) : ~IsMonth(Split(line)[k])

\* the date tokens as each implementation reads them: the 6-stat generation
\* first turns " - " and "-" into spaces
DateTokens(line) ==
    IF target = "legacy_process_general_info"
    THEN Split(Replace(Replace(Strip(line), <<" ","-"," ">>, <<" ">>), <<"-">>, <<" ">>))
    ELSE Split(Strip(line))

C10_NeverRaises ==
    called =>
        /\ ~ret.raised
        /\ (target = "process_scoreboard") =>
               \A k \in 1..Len(ret.val) :
                   DOMAIN ret.val[k] = {"prefix", "player_class", "name", "stats"}
        /\ (target = "process_general_info") => Len(ret.val) = 3

\* a line whose class lookup fails inside the handler: no record, no exception
C10_Witness ==
    /\ called
    /\ target = "process_scoreboard"
    /\ lines = << <<"5"," ","o","A"," ","Z","e","d"," ","1"," ","2"," ","3"," ","4"," ","5"," ","6"," ","7"," ","8">> >>
    /\ ~ret.raised
    /\ ret.val = <<>>


\* ---------------------------------------------------------------- C11

\* ("Unknown", "Unknown", "Unknown")
FallbackInfo == <<Unknown, Unknown, Unknown>>

\* the outcome expected of line 0: stripped, looked up in the table, SUCCESS
\* reported as VICTORY
ExpectedOutcome(table, raw) ==
    LET looked == Correct(table, Strip(raw))
    IN  IF looked = <<"S","U","C","C","E","S","S">> THEN <<"V","I","C","T","O","R","Y">> ELSE looked

\* the indexes of the lines after line 0 that MatchProcessor can use: neither
\* blank nor "?" once stripped
UsableAfter(ls) == {k \in 2..Len(ls) : Strip(ls[k]) # <<>> /\ Strip(ls[k]) # <<"?">>}

\* the map name expected of a usable line: the words before the day number
\* when the line also holds a month abbreviation, else the whole line
ExpectedMapText(u) ==
    LET w  == Split(u)
        ms == {i \in 1..Len(w) : IsMonth(w[i])}
    IN  IF ms = {} THEN u
        ELSE LET i == CHOOSE a \in ms : \A b \in ms : a <= b
             IN  IF i = 1 THEN JoinSp(SubSeq(w, 1, Len(w) - 1))
                 ELSE JoinSp(SubSeq(w, 1, i - 2))

\* MatchProcessor.process_general_info read line 0 as the outcome and the
\* first usable following line as the map name
MatchReadsOutcomeAndMap ==
    /\ ret.val[1] = Strip(Replace(ExpectedOutcome(OUTCOME_CORRECTIONS, lines[1]),
                                  <<"?">>, <<>>))
    /\ IF UsableAfter(lines) = {} THEN ret.val[2] = Unknown
       ELSE LET k == CHOOSE a \in UsableAfter(lines) : \A b \in UsableAfter(lines) : a <= b
            IN  ret.val[2] = Correct(MAP_NAME_CORRECTIONS, ExpectedMapText(Strip(lines[k])))

\* the clean_up_ocr_output.py version read line 0 as the outcome and line 1
\* (line 2 when line 1 holds a "?") as the map name
LegacyReadsOutcomeAndMap ==
    /\ ret.val[1] = ExpectedOutcome(LEGACY_OUTCOME_CORRECTIONS, lines[1])
    /\ ~HasChar(lines[2], "?") =>
           ret.val[2] = Correct(LEGACY_MAP_NAME_CORRECTIONS, Strip(lines[2]))
    /\ (HasChar(lines[2], "?") /\ Len(lines) >= 3) =>
           ret.val[2] = Correct(LEGACY_MAP_NAME_CORRECTIONS, Strip(lines[3]))

PlayersOfMatch == process_scoreboard(LinesOrEmpty(files.scoreboard)).val

\* C12: MatchProcessor.write_csv writes the header row followed by exactly one
\* row per PlayerData, in the order process_scoreboard returned them; an empty
\* player list leaves the header row only.
C12_HeaderThenOneRowPerPlayer ==
    (target = "match" /\ stage = "done" /\ csv.exists) =>
        LET players == PlayersOfMatch
            rows    == csv.text.rows
        IN  /\ csv.text.header = CSV_HEADERS
            /\ Len(rows) = Len(players)
            /\ \A r \in 1..Len(rows) :
                   /\ Len(rows[r]) = Len(CSV_HEADERS)
                   /\ rows[r][5] = players[r].prefix
                   /\ rows[r][6] = players[r].player_class
                   /\ rows[r][7] = players[r].name
                   /\ SubSeq(rows[r], 8, 15) = players[r].stats

\* two players were parsed and their two rows were written in that order
C12_Witness ==
    /\ target = "match"
    /\ stage = "done"
    /\ csv.exists
    /\ Len(csv.text.rows) = 2
    /\ csv.text.rows[1][7] = <<"J","o","h","n"," ","D","o","e">>
    /\ csv.text.rows[2][7] = <<"S","e","n","i","o","r","M","o","o">>

\* ---------------------------------------------------------------- C13

\* the match-wide columns of a row: outcome, map, date, team and the medals
\* of Combat, Capture, Logistics and Intelligence
MatchColumns(row) == SubSeq(row, 1, 4) \o SubSeq(row, 16, 19)

\* C13: all rows that MatchProcessor.write_csv writes for one match carry the
\* same outcome, map, date and team and the same four medal values.
C13_MatchColumnsShared ==
    (target = "match" /\ stage = "done" /\ csv.exists) =>
        \A a, b \in 1..Len(csv.text.rows) :
            MatchColumns(csv.text.rows[a]) = MatchColumns(csv.text.rows[b])

\* two rows of different players were written, both with a Gold Combat medal
C13_Witness ==
    /\ target = "match"
    /\ stage = "done"
    /\ csv.exists
    /\ Len(csv.text.rows) = 2
    /\ csv.text.rows[1][7] # csv.text.rows[2][7]
    /\ csv.text.rows[1][16] = <<"G","o","l","d">>
    /\ csv.text.rows[2][16] = <<"G","o","l","d">>

\* ---------------------------------------------------------------- C14

\* process_single_match has run on a match whose scoreboard file exists
MatchProcessed ==
    /\ target = "match"
    /\ stage \in {"done", "raised"}
    /\ files.scoreboard.exists

\* C14 as stated: for every scoreboard file it is given, process_single_match
\* terminates without raising, whatever side files are missing or malformed,
\* and the processed CSV of the match exists afterwards.
C14_NeverRaisesAndCsvExists ==
    MatchProcessed => (stage = "done" /\ csv.exists)

\* C14 amended: process_single_match terminates without raising, and the
\* processed CSV exists afterwards exactly when the general-information file
\* of the match exists.
C14_NeverRaisesAndCsvIfGeneralInfo ==
    MatchProcessed => (stage = "done" /\ (csv.exists <=> files.general.exists))

\* the general-information file was missing: no exception and no CSV
C14_Witness ==
    /\ MatchProcessed
    /\ ~files.general.exists
    /\ stage = "done"
    /\ ~csv.exists

\* ---------------------------------------------------------------- C15

\* C15: for every input, the outcome returned by
\* MatchProcessor.process_general_info is one of VICTORY, FAILURE, DEFEAT or
\* Unknown.
C15_OutcomeInClosedSet ==
    (target = "process_general_info" /\ called /\ ~ret.raised) =>
        ret.val[1] \in { <<"V","I","C","T","O","R","Y">>, <<"F","A","I","L","U","R","E">>, <<"D","E","F","E","A","T">>, <<"U","n","k","n","o","w","n">> }

\* ---------------------------------------------------------------- C16

Classes == { <<"A","s","s","a","u","l","t">>, <<"E","n","g","i","n","e","e","r">>, <<"S","u","p","p","o","r","t">>, <<"R","e","c","o","n">> }

\* the class of the player whose rank is token p of a line: CLASS_MAP[g] when
\* the token after the rank is a glyph g of CLASS_MAP, else Engineer
ClassAfterRank(tokens, p) ==
    IF Len(tokens) > p /\ HasKey(CLASS_MAP, tokens[p + 1])
    THEN Get(CLASS_MAP, tokens[p + 1])
    ELSE <<"E","n","g","i","n","e","e","r">>

\* the record has its rank at the start of a line, or after the 8 stats of a
\* stat line, and its class is the one of the token after that rank
ClassFromItsLine(ls, record) ==
    \E n \in 1..Len(ls) : \E p \in {1, ScoreboardArity + 1} :
        LET tokens == Split(ls[n])
        IN  /\ Len(tokens) >= p
            /\ tokens[p] = record.prefix
            /\ record.player_class = ClassAfterRank(tokens, p)

\* C16: every record of DataProcessor.process_scoreboard has a class in
\* {Assault, Engineer, Support, Recon}, derived the same way in every layout:
\* CLASS_MAP[g] when the token after the rank is a known glyph g, Engineer
\* when that token is unrecognized.
C16_ClassFromGlyphInEveryLayout ==
    (target = "process_scoreboard" /\ called /\ ~ret.raised) =>
        \A k \in 1..Len(ret.val) :
            /\ ret.val[k].player_class \in Classes
            /\ ClassFromItsLine(lines, ret.val[k])

\* ---------------------------------------------------------------- C17

\* the first 8 tokens of the line are integers (commas removed)
EightIntsFirst(line) ==
    LET t == Split(line)
    IN  Len(t) >= 8 /\ \A n \in 1..8 : IsInt(NoCommas(t[n]))

\* a name line, then stat lines that each carry the next player's rank and
\* name after their 8 stats, then the stat line of the last player
ChainOfSharedStatLines(ls) ==
    /\ Len(ls) >= 3
    /\ HasAlpha(ls[1])
    /\ IsDigit(Split(ls[1])[1])
    /\ ~EightIntsFirst(ls[1])
    /\ \A n \in 2..Len(ls) :
           /\ EightIntsFirst(ls[n])
           /\ IF n < Len(ls) THEN Len(Split(ls[n])) >= 10 /\ IsDigit(Split(ls[n])[9])
              ELSE Len(Split(ls[n])) = 8

\* the rank and name tokens of player k of the chain
ChainPlayerTokens(ls, k) ==
    IF k = 1 THEN Split(ls[1]) ELSE From(Split(ls[k]), ScoreboardArity)

\* the name tokens after the rank and the optional glyph, joined by spaces
NameAfterRank(tokens) ==
    IF Len(tokens) >= 2 /\ HasKey(CLASS_MAP, tokens[2])
    THEN JoinSp(From(tokens, 2))
    ELSE JoinSp(From(tokens, 1))

\* C17: every stat line of more than 8 tokens is read as the current player's
\* 8 stats followed by the next player's rank, optional glyph and name, the
\* next player's stats being the first 8 integers of the line after, also
\* when several such lines follow one another: every player is emitted once,
\* in input order, with their own rank, name and stats.
C17_SharedStatLinesInAChain ==
    (target = "process_scoreboard" /\ called /\ ~ret.raised
     /\ ChainOfSharedStatLines(lines)) =>
        /\ Len(ret.val) = Len(lines) - 1
        /\ \A k \in 1..Len(ret.val) :
               /\ ret.val[k].prefix = ChainPlayerTokens(lines, k)[1]
               /\ ret.val[k].name = NameAfterRank(ChainPlayerTokens(lines, k))
               /\ FirstEightAre(lines[k + 1], ret.val[k].stats)

\* ---------------------------------------------------------------- C18

\* the lines that contain a letter
LetterLines(ls) == {n \in 1..Len(ls) : HasAlpha(ls[n])}

\* the rank of an emitted record: the first field of a row of process_lines,
\* the prefix of a PlayerData of process_scoreboard
RankOf(record) == IF target = "process_lines" THEN record[1] ELSE record.prefix

\* C18: a line without a letter is only ever a stat line: process_lines and
\* DataProcessor.process_scoreboard take the rank of every emitted record
\* from a line that contains a letter, and emit no more records than there
\* are such lines.
C18_RecordsOnlyFromLetterLines ==
    (target \in {"process_lines", "process_scoreboard"} /\ called /\ ~ret.raised) =>
        /\ Len(ret.val) <= Cardinality(LetterLines(lines))
        /\ \A k \in 1..Len(ret.val) :
               \E n \in LetterLines(lines) : TokenOf(RankOf(ret.val[k]), lines[n])

\* ---------------------------------------------------------------- C19

\* the multi-line attempt emits for line n: the line after it starts with a
\* digits-only token (commas removed) and its first 8 tokens are integers
MultiLineEmits(ls, n) ==
    /\ n < Len(ls)
    /\ Split(ls[n + 1]) # <<>>
    /\ IsDigit(NoCommas(Split(ls[n + 1])[1]))
    /\ EightIntsFirst(ls[n + 1])

\* the records of all the visited candidate lines, in order
RECURSIVE EmittedOf(_, _)
EmittedOf(trace, k) ==
    IF k > Len(trace) THEN <<>> ELSE trace[k].emitted \o EmittedOf(trace, k + 1)

\* C19: for each candidate line, DataProcessor.process_scoreboard tries the
\* multi-line layout (with its two-player extension) before the single-line
\* fallback and accepts the first that yields exactly 8 stats: the fallback
\* runs only when the multi-line attempt emitted nothing for that line, and
\* no line yields a record from both.
C19_MultiLineBeforeSingleLine ==
    (target = "process_scoreboard" /\ called /\ ~ret.raised) =>
        LET trace == LayoutTrace(lines, 0, <<>>)
        IN  /\ EmittedOf(trace, 1) = ret.val
            /\ \A e \in 1..Len(trace) :
                   LET n    == trace[e].line + 1
                       recs == trace[e].emitted
                   IN  /\ MultiLineEmits(lines, n) => trace[e].via = "multi"
                       /\ (trace[e].via = "multi") =>
                              /\ MultiLineEmits(lines, n)
                              /\ Len(recs) \in {1, 2}
                              /\ FirstEightAre(lines[n + 1], recs[1].stats)
                              /\ (Len(recs) = 2) =>
                                     /\ n + 2 <= Len(lines)
                                     /\ FirstEightAre(lines[n + 2], recs[2].stats)
                       /\ (trace[e].via = "single") =>
                              /\ ~MultiLineEmits(lines, n)
                              /\ Len(recs) = 1
                              /\ StatsOnSameLine(lines[n], recs[1].stats)
                       /\ (trace[e].via = "none") => recs = <<>>

\* a line that holds 8 consecutive integers was followed by a complete stat
\* line: one record, with the stats of the line after
C19_Witness ==
    /\ target = "process_scoreboard"
    /\ called
    /\ lines = << <<"4"," ","o"," ","A","l"," ","1","0"," ","1"," ","2"," ","3"," ","4"," ","5"," ","6"," ","7">>, <<"1",",","2","0","0"," ","5"," ","2"," ","1"," ","0"," ","3"," ","4"," ","7">> >>
    /\ Len(ret.val) = 1
    /\ ret.val[1].stats = <<1200, 5, 2, 1, 0, 3, 4, 7>>
    /\ LayoutTrace(lines, 0, <<>>)[1].via = "multi"

\* ---------------------------------------------------------------- C20

\* the name tokens of the player whose rank is token p of the line, up to
\* token q, exactly as they appear: the tokens after the rank and its
\* optional glyph, joined by single spaces, a leading "- " removed
NameAsWritten(tokens, p, q) ==
    LET a == IF Len(tokens) > p /\ HasKey(CLASS_MAP, tokens[p + 1])
             THEN p + 2 ELSE p + 1
    IN  StripDash(JoinSp(SubSeq(tokens, a, q)))

\* tokens q+1 .. q+8 of the line are integers
EightIntsAfter(tokens, q) ==
    /\ Len(tokens) >= q + 8
    /\ \A n \in 1..8 : IsInt(NoCommas(tokens[q + n]))

\* C20: DataProcessor.process_scoreboard emits each player's name exactly as
\* the name tokens appear on the line, joined by single spaces, removing
\* nothing except a leading "- ", whatever the tokens are (name tokens that
\* coincide with a class glyph included).
C20_NameExactlyAsWritten ==
    (target = "process_scoreboard" /\ called /\ ~ret.raised) =>
        \A k \in 1..Len(ret.val) :
            \E n \in 1..Len(lines) : \E p \in {1, ScoreboardArity + 1} :
                LET tokens == Split(lines[n])
                IN  /\ Len(tokens) >= p
                    /\ tokens[p] = ret.val[k].prefix
                    /\ \E q \in p..Len(tokens) :
                           /\ q = Len(tokens) \/ EightIntsAfter(tokens, q)
                           /\ ret.val[k].name = NameAsWritten(tokens, p, q)

\* ---------------------------------------------------------------- C21

\* the first line after line 0 that MatchProcessor can use, stripped
FirstUsableLine(ls) ==
    Strip(ls[CHOOSE a \in UsableAfter(ls) : \A b \in UsableAfter(ls) : a <= b])

\* the word positions of the line that hold a month abbreviation
MonthPositions(line) == {i \in 1..Len(Split(line)) : IsMonth(Split(line)[i])}

\* the map line of MatchProcessor.process_general_info holds a month token
MapLineEmbedsDate ==
    /\ target = "process_general_info"
    /\ called
    /\ ~ret.raised
    /\ Len(lines) >= 2
    /\ UsableAfter(lines) # {}
    /\ MonthPositions(FirstUsableLine(lines)) # {}

\* C21: when the map line holds a month abbreviation token at any word
\* position, map_name is exactly the words before the day-number token (the
\* word preceding the month) and the raw date is exactly the words from the
\* day-number token onward.
C21_SplitAtTheDayNumber ==
    MapLineEmbedsDate =>
        LET w  == Split(FirstUsableLine(lines))
            ms == MonthPositions(FirstUsableLine(lines))
            i  == CHOOSE a \in ms : \A b \in ms : a <= b
            d  == IF i = 1 THEN 1 ELSE i - 1
        IN  /\ ret.val[2] = Correct(MAP_NAME_CORRECTIONS, JoinSp(SubSeq(w, 1, d - 1)))
            /\ ret.val[3] = MatchFormatDate(JoinSp(SubSeq(w, d, Len(w)))).date

\* ---------------------------------------------------------------- C22

\* the raw date of the call is a day number and a month abbreviation, no year
DayAndMonthOnly(raw) ==
    /\ Len(Split(raw)) = 2
    /\ IsDigit(Split(raw)[1])
    /\ IsMonth(Split(raw)[2])

\* the date stated for a raw date without a year
DateInThisYear(raw, year) ==
    JoinSp(<<PadDay(Split(raw)[1]), Split(raw)[2], StrOfNat(year), <<"0","0",":","0","0",":","0","0">>>>)

RECURSIVE NthOf(_, _)
NthOf(S, k) ==
    LET least == CHOOSE a \in S : \A b \in S : a <= b
    IN  IF k = 1 THEN least ELSE NthOf(S \ {least}, k - 1)

\* C23: in MatchProcessor.process_general_info every line after line 0 that
\* is empty or exactly "?" once stripped is skipped, however many there are
\* and wherever they sit; the map name is taken from the first remaining line
\* and, unless that line embeds a date, the raw date is the second remaining
\* line ("Unknown" when there is none).
C23_SkipsBlankAndQuestionLines ==
    (/\ target = "process_general_info"
     /\ called
     /\ ~ret.raised
     /\ Len(lines) >= 2
     /\ UsableAfter(lines) # {}) =>
        LET U     == UsableAfter(lines)
            map   == Strip(lines[NthOf(U, 1)])
            words == Split(map)
        IN  IF MonthPositions(map) = {}
            THEN /\ ret.val[2] = Correct(MAP_NAME_CORRECTIONS, map)
                 /\ ret.val[3] = IF Cardinality(U) >= 2
                                 THEN MatchFormatDate(Strip(lines[NthOf(U, 2)])).date
                                 ELSE Unknown
            ELSE \/ ret.val[2] = Correct(MAP_NAME_CORRECTIONS, map)
                 \/ \E n \in 0..Len(words) :
                        ret.val[2] = Correct(MAP_NAME_CORRECTIONS, JoinSp(SubSeq(words, 1, n)))

\* blank and "?" lines stood before, between and after the map line and the
\* date line, and both were still found
C23_Witness ==
    /\ target = "process_general_info"
    /\ called
    /\ lines = << <<"V","I","C","T","O","R","Y">>, <<"?">>, <<>>, <<"C","r","a","c","k","e","d">>, <<" ","?"," ">>, <<" "," ">>, <<"2","0"," ","J","a","n"," ","2","0","2","5">>, <<"?">> >>
    /\ ret.val = << <<"V","I","C","T","O","R","Y">>, <<"C","r","a","c","k","e","d">>, <<"2","0"," ","J","a","n"," ","2","0","2","5"," ","0","0",":","0","0",":","0","0">> >>

\* ---------------------------------------------------------------- C24

\* the values a row holds under the headers named, in the order named
StatsUnder(row, header, names) ==
    [k \in 1..Len(names) |-> row[CHOOSE c \in 1..Len(header) : header[c] = names[k]]]

\* every row written for a player with all 8 stats holds the stats, in the
\* order of the record, under the headers named
StatsWrittenUnder(names) ==
    LET players == PlayersOfMatch
        rows    == csv.text.rows
    IN  \A r \in 1..Len(rows) :
            Len(players[r].stats) >= 8 =>
                StatsUnder(rows[r], csv.text.header, names) = SubSeq(players[r].stats, 1, 8)

\* C24 as stated: write_csv places the stats under the headers in the order
\* score, kills, deaths, assists, revives, captures, vehicle damage, tactical
\* respawn: the sixth stat is written in the Captures column and the seventh
\* in the Vehicle Damage column.
C24_SixthStatUnderCaptures ==
    (target = "match" /\ stage = "done" /\ csv.exists) =>
        StatsWrittenUnder(<< <<"S","c","o","r","e">>, <<"K","i","l","l","s">>, <<"D","e","a","t","h","s">>, <<"A","s","s","i","s","t","s">>, <<"R","e","v","i","v","e","s">>,
                             <<"C","a","p","t","u","r","e","s">>, <<"V","e","h","i","c","l","e"," ","D","a","m","a","g","e">>, <<"T","a","c","t","i","c","a","l"," ","R","e","s","p","a","w","n">> >>)

\* C24 amended: write_csv places the stats under the headers in the order
\* score, kills, deaths, assists, revives, vehicle damage, captures, tactical
\* respawn: the sixth stat is written in the Vehicle Damage column and the
\* seventh in the Captures column.
C24_SixthStatUnderVehicleDamage ==
    (target = "match" /\ stage = "done" /\ csv.exists) =>
        StatsWrittenUnder(<< <<"S","c","o","r","e">>, <<"K","i","l","l","s">>, <<"D","e","a","t","h","s">>, <<"A","s","s","i","s","t","s">>, <<"R","e","v","i","v","e","s">>,
                             <<"V","e","h","i","c","l","e"," ","D","a","m","a","g","e">>, <<"C","a","p","t","u","r","e","s">>, <<"T","a","c","t","i","c","a","l"," ","R","e","s","p","a","w","n">> >>)

\* a row was written for a player whose sixth and seventh stats differ, the
\* sixth under Vehicle Damage
C24_Witness ==
    /\ target = "match"
    /\ stage = "done"
    /\ csv.exists
    /\ LET players == PlayersOfMatch
       IN  \E r \in 1..Len(csv.text.rows) :
               /\ Len(players[r].stats) >= 8
               /\ players[r].stats[6] # players[r].stats[7]
               /\ StatsUnder(csv.text.rows[r], csv.text.header, << <<"V","e","h","i","c","l","e"," ","D","a","m","a","g","e">> >>)
                      = <<players[r].stats[6]>>

\* ---------------------------------------------------------------- C25

\* C25: stray "?" characters in the outcome line do not change the result of
\* MatchProcessor.process_general_info: the outcome returned for a line is the
\* outcome returned for the same line without its "?" characters (so a
\* corrected or a SUCCESS outcome is still normalized), and it never holds
\* a "?".
C25_QuestionMarksChangeNothing ==
    (/\ target = "process_general_info"
     /\ called
     /\ ~ret.raised
     /\ Len(lines) >= 2) =>
        /\ ret.val[1] = process_general_info(
                            <<Replace(lines[1], <<"?">>, <<>>)>> \o Tail(lines)).val[1]
        /\ ~HasChar(ret.val[1], "?")

\* ---------------------------------------------------------------- C26

\* C26: every record emitted by process_lines and by
\* DataProcessor.process_scoreboard has a non-empty name, for any input lines.
C26_NamesNeverEmpty ==
    /\ (target = "process_lines" /\ called /\ ~ret.raised) =>
           \A k \in 1..Len(ret.val) : ret.val[k][3] # <<>>
    /\ (target = "process_scoreboard" /\ called /\ ~ret.raised) =>
           \A k \in 1..Len(ret.val) : ret.val[k].name # <<>>

\* ---------------------------------------------------------------- C27

\* the snapshot name stored with a row of the matches table
SnapshotOfRow(row) == Get(row.record, <<"s","n","a","p","s","h","o","t","_","n","a","m","e">>)

\* the committed rows that call k of thread t inserted
RowsOfCall(t, k) == {n \in 1..Len(db.matches) : db.matches[n].call = <<t, k>>}

\* the calls of import_csv_worker that have ended, as <<thread, call>>
EndedCalls ==
    UNION {{<<t, k>> : k \in 1..Len(workers[t].file_status)} : t \in ThreadIds}

\* what an ended call returned ("True", "False") or raised
ResultOfCall(c) == workers[c[1]].file_status[c[2]].result

\* the snapshot name of the file of an ended call
SnapshotOfCall(c) ==
    ReadCsv(Get(ImportDisk, workers[c[1]].file_status[c[2]].file)).snapshot_name

\* C27: Database.import_csv_worker is thread-safe: when several threads call
\* it concurrently, also with files that share a snapshot name, each
\* snapshot name is imported at most once: the rows of a snapshot come from
\* one call, at most one call for a snapshot returns True, a call that
\* returns True has inserted all its rows and a call that returns False has
\* inserted none.
C27_EachSnapshotImportedOnce ==
    /\ \A a, b \in 1..Len(db.matches) :
           SnapshotOfRow(db.matches[a]) = SnapshotOfRow(db.matches[b])
               => db.matches[a].call = db.matches[b].call
    /\ \A c, d \in EndedCalls :
           (/\ ResultOfCall(c) = "True"
            /\ ResultOfCall(d) = "True"
            /\ SnapshotOfCall(c) = SnapshotOfCall(d)) => c = d
    /\ \A c \in EndedCalls :
           /\ ResultOfCall(c) = "False" => RowsOfCall(c[1], c[2]) = {}
           /\ ResultOfCall(c) = "True" => RowsOfCall(c[1], c[2]) # {}

\* ---------------------------------------------------------------- C28

\* C28: if Database.import_csv_worker raises while it is inserting the rows
\* of a file, none of the rows of that file remain committed in the matches
\* table.
C28_NothingCommittedWhenRaised ==
    \A c \in EndedCalls :
        ResultOfCall(c) \notin {"True", "False"} => RowsOfCall(c[1], c[2]) = {}

\* ---------------------------------------------------------------- C29

\* the scripts started so far are the first scripts of the list, in order
StartedInListOrder ==
    /\ Len(processing_thread.started) <= Len(PipelineScripts)
    /\ processing_thread.started =
           SubSeq(PipelineScripts, 1, Len(processing_thread.started))

\* every script but the first was started after its predecessor exited with 0
StartedAfterSuccess ==
    \A k \in 2..Len(processing_thread.started) :
        /\ Len(processing_thread.codes) >= k - 1
        /\ processing_thread.codes[k - 1] = 0

\* a script that exited with another code than 0 is the last one started, and
\* process_complete(False, ...) was emitted for it
StopsAtFirstFailure ==
    \A k \in 1..Len(processing_thread.codes) :
        processing_thread.codes[k] # 0 =>
            /\ k = Len(processing_thread.started)
            /\ processing_thread.process_complete = <<FALSE>>

\* process_complete is emitted at most once while the thread runs, exactly
\* once when it has returned, and with True only after every script of the
\* list exited with 0
CompleteOnce ==
    /\ Len(processing_thread.process_complete) <= 1
    /\ processing_thread.pc \in {"loop", "poll"} => processing_thread.process_complete = <<>>
    /\ processing_thread.pc = "returned" => Len(processing_thread.process_complete) = 1
    /\ processing_thread.process_complete = <<TRUE>> =>
           /\ processing_thread.started = PipelineScripts
           /\ processing_thread.codes = [k \in 1..Len(PipelineScripts) |-> 0]

ReleaseOf(v) == ParseVersion(CleanVersion(v))

\* C30: UpdateChecker.check_for_updates returns is_update_available = True
\* only when the latest release version is strictly greater than the running
\* version, and never when the two are equal, whether the answer comes from
\* the GitHub API or from the cache file, after any sequence of checks and
\* version changes.
C30_UpdateOnlyIfNewer ==
    (update_checker.last.from # "none" /\ update_checker.last.result[1]) =>
        /\ ReleaseOf(update_checker.last.result[2]).valid
        /\ ReleaseOf(update_checker.last.running).valid
        /\ NewerRelease(ReleaseOf(update_checker.last.result[2]).release,
                        ReleaseOf(update_checker.last.running).release)
====
